---- MODULE Spec2Model ----
(***************************************************************************)
(* Model of the statewide aggregation layer of il-election-results:        *)
(* aggregate_results.py (MultiCountyAggregator) as driven by               *)
(* run_election_night.py (run_aggregator).                                 *)
(*                                                                         *)
(* Text is modelled as a sequence of tokens.  A token is a maximal run of  *)
(* letters (a word, in the letter case it has in the text), a run of       *)
(* whitespace (" " is one blank, "  " a longer run), a single digit or a   *)
(* single punctuation mark.  "U.S." is kept as one token.                  *)
(*                                                                         *)
(* A JSON object is a record; an object whose keys may be absent carries   *)
(* the set of keys it has in the field keys.                               *)
(***************************************************************************)
EXTENDS Integers, Sequences, FiniteSets, TLC

VARIABLES files, race_mappings, results,
          scraper, pc, lines_read, head, scraper_contests, current_contest,
          precincts_total, precincts_reporting,
          validation,
          clock, conductor, output_file, reader, journal,
          winnebago, normalized

aggregatorVars == <<files, race_mappings, results>>

scraperVars == <<scraper, pc, lines_read, head, scraper_contests, current_contest,
                 precincts_total, precincts_reporting>>

validatorVars == <<validation>>

conductorVars == <<clock, conductor, output_file, reader, journal>>

\* the calls of the functions that are checked on their own
functionVars == <<winnebago, normalized>>

vars == <<aggregatorVars, scraperVars, validatorVars, conductorVars, functionVars>>

(***************************************************************************)
(* Tokens                                                                  *)
(***************************************************************************)
SpaceTokens == {" ", "  "}

DigitTokens == {"0", "1", "2", "3", "4", "5", "6", "7", "8", "9"}

PunctTokens == {"(", ")", "-", "U.S.", "%", ",", ".", ":", "\""}

IsSpace(t) == t \in SpaceTokens

IsWord(t) == t \notin SpaceTokens \cup DigitTokens \cup PunctTokens

\* str.upper() on one token
UpperToken(t) ==
    CASE t = "President" -> "PRESIDENT"
      [] t = "of"        -> "OF"
      [] t = "the"       -> "THE"
      [] t = "United"    -> "UNITED"
      [] t = "States"    -> "STATES"
      [] t = "Jane"      -> "JANE"
      [] t = "Doe"       -> "DOE"
      [] t = "John"      -> "JOHN"
      [] t = "Roe"       -> "ROE"
      [] t = "i"         -> "I"
      [] t = "Bob"       -> "BOB"
      [] t = "Write"     -> "WRITE"
      [] t = "in"        -> "IN"
      [] t = "Number"    -> "NUMBER"
      [] t = "Precincts" -> "PRECINCTS"
      [] t = "Reporting" -> "REPORTING"
      [] t = "No"        -> "NO"
      [] t = "no"        -> "NO"
      [] t = "Yes"       -> "YES"
      [] t = "yes"       -> "YES"
      [] t = "Candidate" -> "CANDIDATE"
      [] t = "Total"     -> "TOTAL"
      [] t = "Totals"    -> "TOTALS"
      [] t = "Votes"     -> "VOTES"
      [] t = "Regional"  -> "REGIONAL"
      [] t = "Superintendent" -> "SUPERINTENDENT"
      [] t = "County"    -> "COUNTY"
      [] t = "Clerk"     -> "CLERK"
      [] t = "Mayor"     -> "MAYOR"
      [] OTHER           -> t

\* the list whose elements are f[1], ..., f[Len(f)]
List(f) == SubSeq(f, 1, Len(f))

\* str.upper()
Upper(s) == List([i \in 1..Len(s) |-> UpperToken(s[i])])

\* a word token matched by the regular expression [A-Z]+
IsCapsWord(t) == IsWord(t) /\ UpperToken(t) = t

RECURSIVE SplitWords(_)
\* str.split(): the text without its whitespace runs, as the list of the
\* maximal runs of non-whitespace tokens
SplitWords(s) ==
    IF s = <<>> THEN <<>>
    ELSE IF IsSpace(Head(s)) THEN SplitWords(Tail(s))
    ELSE LET rest == SplitWords(Tail(s))
         IN IF Len(s) > 1 /\ ~IsSpace(s[2]) /\ rest # <<>>
            THEN <<(<<Head(s)>> \o Head(rest))>> \o Tail(rest)
            ELSE <<(<<Head(s)>>)>> \o rest

RECURSIVE JoinWords(_)
\* ' '.join(words)
JoinWords(ws) ==
    IF ws = <<>> THEN <<>>
    ELSE IF Len(ws) = 1 THEN Head(ws)
    ELSE Head(ws) \o <<" ">> \o JoinWords(Tail(ws))

\* ' '.join(s.split())
CollapseWhitespace(s) == JoinWords(SplitWords(s))

\* s[i:].startswith(p), i counted from 1
StartsWithAt(s, i, p) ==
    /\ i + Len(p) - 1 <= Len(s)
    /\ \A j \in 1..Len(p) : s[i + j - 1] = p[j]

RECURSIVE StrReplace(_, _, _)
\* str.replace(old, new): every non-overlapping occurrence, left to right
StrReplace(s, old, new) ==
    IF s = <<>> THEN <<>>
    ELSE IF StartsWithAt(s, 1, old)
         THEN new \o StrReplace(SubSeq(s, Len(old) + 1, Len(s)), old, new)
         ELSE <<Head(s)>> \o StrReplace(Tail(s), old, new)

(***************************************************************************)
(* Identity normalisation (MultiCountyAggregator)                          *)
(***************************************************************************)
PresidentLong == <<"PRESIDENT", " ", "OF", " ", "THE", " ", "UNITED", " ", "STATES">>

\* MultiCountyAggregator._normalize_contest_name
_normalize_contest_name(name) ==
    LET n0 == CollapseWhitespace(Upper(name))
        n1 == StrReplace(n0, PresidentLong, <<"PRESIDENT">>)
        n2 == StrReplace(n1, <<"U.S.", " ", "SENATOR">>, <<"SENATOR">>)
    IN StrReplace(n2, <<"U.S.", " ", "REPRESENTATIVE">>, <<"REPRESENTATIVE">>)

RECURSIVE LeadingSpaces(_)
\* the length of the whitespace run that s starts with
LeadingSpaces(s) ==
    IF s # <<>> /\ IsSpace(Head(s)) THEN 1 + LeadingSpaces(Tail(s)) ELSE 0

\* the length of the match of \s*\([A-Z]+\)\s* at the start of s, 0 if none
PartyTagMatch(s) ==
    LET k == LeadingSpaces(s)
    IN IF /\ k + 3 <= Len(s)
          /\ s[k + 1] = "("
          /\ IsCapsWord(s[k + 2])
          /\ s[k + 3] = ")"
       THEN k + 3 + LeadingSpaces(SubSeq(s, k + 4, Len(s)))
       ELSE 0

RECURSIVE RemovePartyTags(_)
\* re.sub(r'\s*\([A-Z]+\)\s*', '', name)
RemovePartyTags(s) ==
    IF s = <<>> THEN <<>>
    ELSE LET m == PartyTagMatch(s)
         IN IF m > 0 THEN RemovePartyTags(SubSeq(s, m + 1, Len(s)))
            ELSE <<Head(s)>> \o RemovePartyTags(Tail(s))

\* MultiCountyAggregator._normalize_candidate_name
_normalize_candidate_name(name) ==
    CollapseWhitespace(Upper(RemovePartyTags(name)))

(***************************************************************************)
(* District patterns                                                       *)
(***************************************************************************)
DigitSeq == <<"0", "1", "2", "3", "4", "5", "6", "7", "8", "9">>

RECURSIVE Digits(_)
\* the decimal digits of a district number, as f"{district}" formats it
Digits(d) ==
    IF d < 10 THEN <<DigitSeq[d + 1]>>
    ELSE Digits(d \div 10) \o <<DigitSeq[(d % 10) + 1]>>

\* re.search(pattern, s) for a pattern head.*{district} (wild) or
\* head{district} (not wild)
Search(p, district, s) ==
    \E i \in 1..Len(s) :
        /\ StartsWithAt(s, i, p.head)
        /\ IF p.wild
           THEN \E j \in (i + Len(p.head))..Len(s) :
                    StartsWithAt(s, j, Digits(district))
           ELSE StartsWithAt(s, i + Len(p.head), Digits(district))

\* race_patterns of _aggregate_congress ("." of U.S. matches the dots)
CongressPatterns ==
    << [head |-> <<"CONGRESS">>, wild |-> TRUE],
       [head |-> <<"CONGRESSIONAL", " ", "DISTRICT", " ">>, wild |-> FALSE],
       [head |-> <<"U.S.", " ", "REPRESENTATIVE">>, wild |-> TRUE] >>

\* race_patterns of _aggregate_state_senate
StateSenatePatterns ==
    << [head |-> <<"STATE", " ", "SENATE">>, wild |-> TRUE],
       [head |-> <<"SENATOR">>, wild |-> TRUE],
       [head |-> <<"SENATE", " ", "DISTRICT", " ">>, wild |-> FALSE] >>

\* race_patterns of _aggregate_state_house
StateHousePatterns ==
    << [head |-> <<"STATE", " ", "REPRESENTATIVE">>, wild |-> TRUE],
       [head |-> <<"REPRESENTATIVE">>, wild |-> TRUE],
       [head |-> <<"HOUSE", " ", "DISTRICT", " ">>, wild |-> FALSE],
       [head |-> <<"STATE", " ", "HOUSE">>, wild |-> TRUE] >>

\* the contest name matches one of the patterns of the district
MatchesAny(race_patterns, district, name) ==
    \E k \in 1..Len(race_patterns) :
        Search(race_patterns[k], district, Upper(name))

(***************************************************************************)
(* JSON helpers                                                            *)
(***************************************************************************)
\* dict.get(key, default)
GetOr(obj, key, default) == IF key \in obj.keys THEN obj[key] ELSE default

RECURSIVE SumVotes(_)
\* sum(c['votes'] for c in entries)
SumVotes(entries) ==
    IF entries = <<>> THEN 0 ELSE Head(entries).votes + SumVotes(Tail(entries))

\* round(n / d), ties to the even neighbour (Python's round)
RoundHalfEven(n, d) ==
    LET q == n \div d
        r == n % d
    IN IF 2 * r < d THEN q
       ELSE IF 2 * r > d THEN q + 1
       ELSE IF q % 2 = 0 THEN q ELSE q + 1

\* round((votes / total_votes) * 100, 2), in hundredths of a percent
Percent(votes, total_votes) == RoundHalfEven(votes * 10000, total_votes)

(***************************************************************************)
(* Merge Engine: MultiCountyAggregator._merge_contests                     *)
(*                                                                         *)
(* An appearance is [county, contest].  merged['candidates'] is built as a *)
(* dict in insertion order: keys holds its keys, vals its values.          *)
(***************************************************************************)
\* AddCandidate with line 360 skipped for a candidate already in the dict:
\* only the first source's votes are kept
AddCandidate_FirstSourceOnly(acc, candidate, county) ==
    LET name == _normalize_candidate_name(candidate.name)
        votes == GetOr(candidate, "votes", 0)
    IN IF \E i \in 1..Len(acc.keys) : acc.keys[i] = name
       THEN LET i == CHOOSE k \in 1..Len(acc.keys) : acc.keys[k] = name
            IN [acc EXCEPT !.vals[i].counties = Append(@, county)]
       ELSE [keys |-> Append(acc.keys, name),
             vals |-> Append(acc.vals, [name |-> candidate.name,
                                        votes |-> votes,
                                        counties |-> <<county>>])]

\* AddCandidate with = for += in line 360: the last source's votes are kept
AddCandidate_LastSourceWins(acc, candidate, county) ==
    LET name == _normalize_candidate_name(candidate.name)
        votes == GetOr(candidate, "votes", 0)
    IN IF \E i \in 1..Len(acc.keys) : acc.keys[i] = name
       THEN LET i == CHOOSE k \in 1..Len(acc.keys) : acc.keys[k] = name
            IN [acc EXCEPT !.vals[i].votes = votes,
                           !.vals[i].counties = Append(@, county)]
       ELSE [keys |-> Append(acc.keys, name),
             vals |-> Append(acc.vals, [name |-> candidate.name,
                                        votes |-> votes,
                                        counties |-> <<county>>])]

\* lines 351-361: one candidate row added to merged['candidates']
AddCandidate(acc, candidate, county) ==
    LET name == _normalize_candidate_name(candidate.name)
        votes == GetOr(candidate, "votes", 0)
    IN IF \E i \in 1..Len(acc.keys) : acc.keys[i] = name
       THEN LET i == CHOOSE k \in 1..Len(acc.keys) : acc.keys[k] = name
            IN [acc EXCEPT !.vals[i].votes = @ + votes,
                           !.vals[i].counties = Append(@, county)]
       ELSE [keys |-> Append(acc.keys, name),
             vals |-> Append(acc.vals, [name |-> candidate.name,
                                        votes |-> votes,
                                        counties |-> <<county>>])]

RECURSIVE FoldCandidates(_, _, _)
\* line 350: for candidate in appearance['contest'].get('candidates', [])
FoldCandidates(acc, candidates, county) ==
    IF candidates = <<>> THEN acc
    ELSE FoldCandidates(AddCandidate(acc, Head(candidates), county),
                        Tail(candidates), county)

RECURSIVE FoldAppearances(_, _)
\* line 349: for appearance in appearances
FoldAppearances(acc, appearances) ==
    IF appearances = <<>> THEN acc
    ELSE FoldAppearances(
             FoldCandidates(acc,
                            GetOr(Head(appearances).contest, "candidates", <<>>),
                            Head(appearances).county),
             Tail(appearances))

\* lines 364-367: percent is set only when total_votes > 0
WithPercent(entries, total_votes) ==
    IF total_votes > 0
    THEN List([i \in 1..Len(entries) |->
                  [name |-> entries[i].name,
                   votes |-> entries[i].votes,
                   counties |-> entries[i].counties,
                   percent |-> Percent(entries[i].votes, total_votes)]])
    ELSE entries

RECURSIVE InsertByVotes(_, _)
\* e placed after every entry with at least as many votes
InsertByVotes(sorted, e) ==
    IF sorted = <<>> THEN <<e>>
    ELSE IF Head(sorted).votes >= e.votes
         THEN <<Head(sorted)>> \o InsertByVotes(Tail(sorted), e)
         ELSE <<e>> \o sorted

RECURSIVE SortByVotes(_)
\* sorted(entries, key=votes, reverse=True): stable, most votes first
SortByVotes(entries) ==
    IF entries = <<>> THEN <<>>
    ELSE InsertByVotes(SortByVotes(SubSeq(entries, 1, Len(entries) - 1)),
                       entries[Len(entries)])

\* MultiCountyAggregator._merge_contests
_merge_contests(appearances) ==
    LET acc == FoldAppearances([keys |-> <<>>, vals |-> <<>>], appearances)
        total_votes == SumVotes(acc.vals)
    IN [name |-> appearances[1].contest.name,
        party |-> GetOr(appearances[1].contest, "party", "Non-Partisan"),
        counties |-> List([i \in 1..Len(appearances) |-> appearances[i].county]),
        num_counties |-> Len(appearances),
        candidates |-> SortByVotes(WithPercent(acc.vals, total_votes)),
        total_votes |-> total_votes]

(***************************************************************************)
(* Cross-source matching                                                   *)
(*                                                                         *)
(* county_results is the dict _load_county_results returns: order is the   *)
(* list of its keys in insertion order, data maps a key to the file's JSON.*)
(***************************************************************************)
\* the appearances of one county's contests, in file order
CountyAppearances(county, data) ==
    LET contests == GetOr(data, "contests", <<>>)
    IN List([i \in 1..Len(contests) |-> [county |-> county, contest |-> contests[i]]])

RECURSIVE AllAppearances(_, _)
\* lines 218-224: every contest of every county in counties, in order
AllAppearances(county_results, counties) ==
    IF counties = <<>> THEN <<>>
    ELSE CountyAppearances(Head(counties), county_results.data[Head(counties)])
         \o AllAppearances(county_results, Tail(counties))

\* a contest without a 'name' key: contest['name'] raises KeyError (line 220)
StatewideRaises(county_results) ==
    LET all == AllAppearances(county_results, county_results.order)
    IN \E i \in 1..Len(all) : "name" \notin all[i].contest.keys

\* the threshold of line 228
Quorum == 5

\* MultiCountyAggregator._aggregate_statewide_races
_aggregate_statewide_races(county_results) ==
    LET all == AllAppearances(county_results, county_results.order)
        keyed == List([i \in 1..Len(all) |->
                          [key |-> _normalize_contest_name(all[i].contest.name),
                           appearance |-> all[i]]])
        contest_appearances(k) ==
            LET group == SelectSeq(keyed, LAMBDA x : x.key = k)
            IN List([j \in 1..Len(group) |-> group[j].appearance])
    IN [k \in {keyed[i].key : i \in {j \in 1..Len(keyed) :
                   Len(contest_appearances(keyed[j].key)) >= Quorum}} |->
           _merge_contests(contest_appearances(k))]

\* DistrictAppearances with the loop of line 316 over every loaded county
\* instead of the counties listed for the district
DistrictAppearances_AllCounties(county_results, counties, race_patterns, district) ==
    SelectSeq(AllAppearances(county_results, county_results.order),
              LAMBDA a : MatchesAny(race_patterns, district, a.contest.name))

\* lines 314-330: the contests of the listed, loaded counties whose name
\* matches a pattern of the district
DistrictAppearances(county_results, counties, race_patterns, district) ==
    LET loaded == SelectSeq(counties,
                            LAMBDA c : c \in DOMAIN county_results.data)
        all == AllAppearances(county_results, loaded)
    IN SelectSeq(all, LAMBDA a :
                          MatchesAny(race_patterns, district, a.contest.name))

\* the None that _aggregate_multi_county_race returns when nothing matched
None == [none |-> TRUE]

\* MultiCountyAggregator._aggregate_multi_county_race; race_patterns are
\* the patterns of the office, formatted with the district
_aggregate_multi_county_race(county_results, counties, race_patterns, district) ==
    LET appearances == DistrictAppearances(county_results, counties,
                                           race_patterns, district)
    IN IF appearances = <<>> THEN None ELSE _merge_contests(appearances)

\* the loop shared by _aggregate_congress, _aggregate_state_senate and
\* _aggregate_state_house: an entry "District d" for each mapped district
\* whose race was found
AggregateOffice(county_results, mappings, office, race_patterns) ==
    LET districts == GetOr(mappings, office, <<>>)
        contest_data(d) == _aggregate_multi_county_race(
                               county_results, districts[d], race_patterns, d)
    IN [d \in {x \in DOMAIN districts : contest_data(x) # None} |->
           contest_data(d)]

\* MultiCountyAggregator._aggregate_congress
_aggregate_congress(county_results, mappings) ==
    AggregateOffice(county_results, mappings, "congress", CongressPatterns)

\* MultiCountyAggregator._aggregate_state_senate
_aggregate_state_senate(county_results, mappings) ==
    AggregateOffice(county_results, mappings, "state_senate", StateSenatePatterns)

\* MultiCountyAggregator._aggregate_state_house
_aggregate_state_house(county_results, mappings) ==
    AggregateOffice(county_results, mappings, "state_house", StateHousePatterns)

(***************************************************************************)
(* Statewide Aggregator                                                    *)
(*                                                                         *)
(* The results directory maps a county to its result file; a county whose  *)
(* scraper has written nothing yet has NoFile.  glob_order is the order in *)
(* which results_dir.glob("*.json") lists the files.                        *)
(***************************************************************************)
NoFile == [exists |-> FALSE, keys |-> {}]

\* _load_county_results without the test of lines 199-201
_load_county_results_KeepErrors(dir, glob_order) ==
    LET order == SelectSeq(glob_order, LAMBDA c : dir[c].exists)
    IN [order |-> order,
        data |-> [c \in {order[i] : i \in 1..Len(order)} |-> dir[c]]]

\* MultiCountyAggregator._load_county_results: files with an 'error' key
\* are skipped
_load_county_results(dir, glob_order) ==
    LET order == SelectSeq(glob_order,
                           LAMBDA c : dir[c].exists /\ "error" \notin dir[c].keys)
    IN [order |-> order,
        data |-> [c \in {order[i] : i \in 1..Len(order)} |-> dir[c]]]

\* lines 161-172: the dict that aggregate builds; aggregated_at is left out.
\* statewide_races is evaluated first, and raises on a contest without name
AggregatedTree(county_results, mappings) ==
    IF StatewideRaises(county_results)
    THEN [outcome |-> "raised", tree |-> [exception |-> "KeyError"]]
    ELSE [outcome |-> "returned",
          tree |-> [num_counties |-> Len(county_results.order),
                    counties_included |-> county_results.order,
                    statewide_races |->
                        _aggregate_statewide_races(county_results),
                    multi_county_races |->
                        [congress |->
                             _aggregate_congress(county_results, mappings),
                         state_senate |->
                             _aggregate_state_senate(county_results, mappings),
                         state_house |->
                             _aggregate_state_house(county_results, mappings)],
                    county_results |-> county_results.data]]

\* aggregate without the test of lines 150-154
aggregate_NoEmptyCheck(dir, mappings, glob_order) ==
    AggregatedTree(_load_county_results(dir, glob_order), mappings)

\* MultiCountyAggregator.aggregate: what the call does (returned or raised)
\* and the dict it returns
aggregate(dir, mappings, glob_order) ==
    LET county_results == _load_county_results(dir, glob_order)
    IN IF county_results.order = <<>>
       THEN [outcome |-> "returned",
             tree |-> [error |-> "No county results found",
                       results_dir |-> "./county_results"]]
       ELSE AggregatedTree(county_results, mappings)

(***************************************************************************)
(* La Salle County scraper: the lines of the PDF text                      *)
(*                                                                         *)
(* A line is a token sequence.  A literal of a regular expression is       *)
(* matched token by token, so "^Total Votes" matches a line that starts    *)
(* with the tokens Total, blank, Votes in any letter case.                 *)
(***************************************************************************)
RECURSIVE TrailingSpaces(_)
\* the length of the whitespace run that s ends with
TrailingSpaces(s) ==
    IF s # <<>> /\ IsSpace(s[Len(s)])
    THEN 1 + TrailingSpaces(SubSeq(s, 1, Len(s) - 1))
    ELSE 0

\* str.strip()
Strip(s) ==
    LET k == LeadingSpaces(s)
    IN IF k = Len(s) THEN <<>>
       ELSE SubSeq(s, k + 1, Len(s) - TrailingSpaces(s))

\* the number of characters of a token
TokenLen(t) ==
    CASE t \in {"  ", "of", "No", "ND"}                          -> 2
      [] t \in {"Doe", "Roe", "DOE", "ROE", "DEM", "REP", "IND",
                "Bob", "BOB"}                                     -> 3
      [] t \in {"Jane", "John", "JANE", "JOHN", "U.S."}           -> 4
      [] t \in {"CLERK", "Total", "Votes", "TOTAL", "VOTES"}      -> 5
      [] t \in {"COUNTY", "Number", "Totals"}                     -> 6
      [] t \in {"SHERIFF"}                                        -> 7
      [] t \in {"Precincts", "Reporting", "Candidate"}            -> 9
      [] t \in {"DEMOCRATIC"}                                     -> 10
      [] OTHER                                                    -> 1

RECURSIVE CharLen(_)
\* len(s)
CharLen(s) == IF s = <<>> THEN 0 ELSE TokenLen(Head(s)) + CharLen(Tail(s))

\* the value of a digit
DigitValue(t) == CHOOSE d \in 0..9 : DigitSeq[d + 1] = t

RECURSIVE ToInt(_)
\* the number that a run of digits writes
ToInt(digs) ==
    IF digs = <<>> THEN 0
    ELSE 10 * ToInt(SubSeq(digs, 1, Len(digs) - 1)) + DigitValue(digs[Len(digs)])

RECURSIVE RunBack(_, _, _)
\* the length of the longest run of tokens of the set that ends at s[i]
RunBack(s, i, set) ==
    IF i >= 1 /\ s[i] \in set THEN 1 + RunBack(s, i - 1, set) ELSE 0

RECURSIVE RunFwd(_, _, _)
\* the length of the longest run of tokens of the set that starts at s[i]
RunFwd(s, i, set) ==
    IF i <= Len(s) /\ s[i] \in set THEN 1 + RunFwd(s, i + 1, set) ELSE 0

\* s with the commas removed: votes_str.replace(",", "")
WithoutCommas(s) == SelectSeq(s, LAMBDA t : t # ",")

\* int(text) raises ValueError
IntRaises(s) == WithoutCommas(s) = <<>>

\* int(votes_str.replace(",", ""))
IntOf(s) == ToInt(WithoutCommas(s))

\* float(text) raises ValueError: no digit, or more than one point
FloatRaises(s) ==
    \/ \A k \in 1..Len(s) : s[k] = "."
    \/ Cardinality({k \in 1..Len(s) : s[k] = "."}) > 1

\* float(text), in hundredths; the texts of the model have at most two
\* decimals
FloatOf(s) ==
    LET whole == RunFwd(s, 1, DigitTokens)
        frac  == SubSeq(s, whole + 2, Len(s))
    IN 100 * ToInt(SubSeq(s, 1, whole))
       + (IF Len(frac) = 0 THEN 0
          ELSE IF Len(frac) = 1 THEN 10 * DigitValue(frac[1])
          ELSE 10 * DigitValue(frac[1]) + DigitValue(frac[2]))

\* ^\d+\.\d+%$
BarePercentage(s) ==
    LET a == RunFwd(s, 1, DigitTokens)
        b == RunFwd(s, a + 2, DigitTokens)
    IN /\ a > 0
       /\ a + 1 <= Len(s) /\ s[a + 1] = "."
       /\ b > 0
       /\ Len(s) = a + b + 2 /\ s[Len(s)] = "%"

\* ^\d+ of \d+ (re.IGNORECASE)
DigitsOfDigits(s) ==
    LET a == RunFwd(s, 1, DigitTokens)
    IN /\ a > 0
       /\ StartsWithAt(Upper(s), a + 1, <<" ", "OF", " ">>)
       /\ RunFwd(s, a + 4, DigitTokens) > 0

\* ^\d+ of \d+ Precincts (re.IGNORECASE)
DigitsOfDigitsPrecincts(s) ==
    LET a == RunFwd(s, 1, DigitTokens)
        b == RunFwd(s, a + 4, DigitTokens)
    IN /\ DigitsOfDigits(s)
       /\ StartsWithAt(Upper(s), a + 4 + b, <<" ", "PRECINCTS">>)

\* ^Page \d (re.IGNORECASE)
PageNumber(s) ==
    /\ StartsWithAt(Upper(s), 1, <<"PAGE", " ">>)
    /\ RunFwd(s, 3, DigitTokens) > 0

\* the literal alternatives shared by skip_patterns and is_header_line
ReportLiterals ==
    { <<"NUMBER", " ", "OF", " ", "PRECINCTS">>,
      <<"PRECINCTS", " ", "REPORTING">>,
      <<"VOTE", " ", "FOR">>,
      <<"TOTAL", " ", "VOTES">>,
      <<"DATE", ":">>,
      <<"TIME", ":">>,
      <<"ELECTION", " ", "SUMMARY">>,
      <<"CONSOLIDATED">>,
      <<"TUESDAY">>,
      <<"LASALLE", " ", "COUNTY">>,
      <<"FINAL", " ", "RESULTS">>,
      <<"REGISTERED", " ", "VOTERS">> }

\* the line starts with one of the literals, in any letter case
StartsWithLiteral(s) == \E p \in ReportLiterals : StartsWithAt(Upper(s), 1, p)

\* skip_patterns of parse_candidate_line
SkipLine(s) ==
    \/ StartsWithLiteral(s)
    \/ BarePercentage(s)
    \/ PageNumber(s)
    \/ DigitsOfDigitsPrecincts(s)

(***************************************************************************)
(* La Salle County scraper: parse_candidate_line                           *)
(***************************************************************************)
\* int() or float() raised
ValueError == [exception |-> "ValueError"]

NoCandidate == <<"No", " ", "Candidate">>

\* the words of the model that start with the letters TOTAL
TotalWords == {"TOTAL", "TOTALS"}

\* name.upper().startswith("TOTAL")
StartsWithTotal(name) == name # <<>> /\ UpperToken(name[1]) \in TotalWords

\* ^No Candidate(?:\s*\(([A-Z]+)\))?$ (re.IGNORECASE)
NoCandidateMatch(s) ==
    /\ StartsWithAt(Upper(s), 1, <<"NO", " ", "CANDIDATE">>)
    /\ LET k == 3 + RunFwd(s, 4, SpaceTokens)
       IN \/ Len(s) = 3
          \/ /\ Len(s) = k + 3
             /\ s[k + 1] = "("
             /\ IsWord(s[k + 2])
             /\ s[k + 3] = ")"

\* group(1) of the match, "" when the tag is absent
NoCandidateTag(s) == IF Len(s) = 3 THEN "" ELSE s[Len(s) - 1]

\* the number of tokens of  [\d.]+  in  \s+([\d.]+)%$
PctLen(s) == RunBack(s, Len(s) - 1, DigitTokens \cup {"."})

\* the position of the last token of  [\d,]+  in  \s+([\d,]+)\s+([\d.]+)%$
VotesEnd(s) == Len(s) - PctLen(s) - 2

\* the number of tokens of  [\d,]+
VotesLen(s) == RunBack(s, VotesEnd(s), DigitTokens \cup {","})

\* the line ends with  \s+([\d,]+)\s+([\d.]+)%$
HasVoteTail(s) ==
    /\ Len(s) >= 1 /\ s[Len(s)] = "%"
    /\ PctLen(s) > 0
    /\ VotesEnd(s) >= 1 /\ IsSpace(s[VotesEnd(s) + 1])
    /\ VotesLen(s) > 0
    /\ VotesEnd(s) - VotesLen(s) >= 1
    /\ IsSpace(s[VotesEnd(s) - VotesLen(s)])

\* the position of the last token before the vote tail
BeforeTail(s) == VotesEnd(s) - VotesLen(s) - 1

votes_str(s) == SubSeq(s, VotesEnd(s) - VotesLen(s) + 1, VotesEnd(s))

pct_str(s) == SubSeq(s, Len(s) - PctLen(s), Len(s) - 1)

\* ^(.+?)\s+\(([A-Z]+)\)\s+([\d,]+)\s+([\d.]+)%$
FullMatch(s) ==
    /\ HasVoteTail(s)
    /\ LET e == BeforeTail(s)
       IN /\ e >= 5
          /\ s[e] = ")"
          /\ IsCapsWord(s[e - 1])
          /\ s[e - 2] = "("
          /\ IsSpace(s[e - 3])

\* ^(.+?)\s+([\d,]+)\s+([\d.]+)%$
NoPartyMatch(s) == HasVoteTail(s) /\ BeforeTail(s) >= 1

\* the dict of a candidate line whose numbers convert
CandidateDict(name, party_code, s) ==
    IF IntRaises(votes_str(s)) \/ FloatRaises(pct_str(s)) THEN ValueError
    ELSE [name |-> name,
          party_code |-> party_code,
          votes |-> IntOf(votes_str(s)),
          percentage |-> FloatOf(pct_str(s)),
          is_placeholder |-> FALSE]

\* parse_candidate_line: None, a candidate dict, or ValueError when the call
\* raises
parse_candidate_line(line) ==
    LET s == Strip(line)
    IN IF SkipLine(s) THEN None
       ELSE IF NoCandidateMatch(s)
       THEN [name |-> NoCandidate,
             party_code |-> NoCandidateTag(s),
             votes |-> 0,
             percentage |-> 0,
             is_placeholder |-> TRUE]
       ELSE IF FullMatch(s)
       THEN CandidateDict(SubSeq(s, 1, BeforeTail(s) - 4),
                          UpperToken(s[BeforeTail(s) - 1]), s)
       ELSE IF NoPartyMatch(s)
       THEN LET name == SubSeq(s, 1, BeforeTail(s))
            IN IF StartsWithTotal(name) THEN None
               ELSE CandidateDict(name, "", s)
       ELSE None

(***************************************************************************)
(* La Salle County scraper: parse_pdf_text                                 *)
(***************************************************************************)
\* PARTY_MAP.get(party_code.upper(), "Non-Partisan")
PARTY_MAP(code) ==
    CASE UpperToken(code) = "DEM" -> "Democratic"
      [] UpperToken(code) = "REP" -> "Republican"
      [] OTHER                    -> "Non-Partisan"

\* kw in text
Contains(text, kw) == \E k \in 1..Len(text) : StartsWithAt(text, k, kw)

\* PARTY_KEYWORDS, in the order of the dict
PARTY_KEYWORDS ==
    << [party |-> "Democratic",
        keywords |-> { <<"-", " ", "DEMOCRATIC">>,
                       <<"DEMOCRATIC", " ", "PRIMARY">>,
                       <<"(", "DEMOCRATIC", ")">> }],
       [party |-> "Republican",
        keywords |-> { <<"-", " ", "REPUBLICAN">>,
                       <<"REPUBLICAN", " ", "PRIMARY">>,
                       <<"(", "REPUBLICAN", ")">> }] >>

\* detect_party_from_name; "" stands for None
detect_party_from_name(contest_name) ==
    LET upper == Upper(contest_name)
        hit(k) == \E kw \in PARTY_KEYWORDS[k].keywords : Contains(upper, kw)
    IN IF hit(1) THEN PARTY_KEYWORDS[1].party
       ELSE IF hit(2) THEN PARTY_KEYWORDS[2].party
       ELSE ""

\* normalize_party
normalize_party(party_code, contest_party) ==
    IF party_code # "" THEN PARTY_MAP(party_code)
    ELSE IF contest_party # "" THEN contest_party
    ELSE "Non-Partisan"

\* CATEGORY_MAP, in the order of the dict; the keywords are compared in
\* upper case instead of lower case
CATEGORY_MAP ==
    << [keyword |-> <<"COUNTY", " ", "CLERK">>, category |-> "County"],
       [keyword |-> <<"COUNTY", " ", "TREASURER">>, category |-> "County"],
       [keyword |-> <<"COUNTY", " ", "SHERIFF">>, category |-> "County"],
       [keyword |-> <<"COUNTY", " ", "BOARD">>, category |-> "County"],
       [keyword |-> <<"REGIONAL", " ", "SUPERINTENDENT">>, category |-> "County"],
       [keyword |-> <<"APPELLATE">>, category |-> "Judicial"],
       [keyword |-> <<"CIRCUIT">>, category |-> "Judicial"],
       [keyword |-> <<"SUBCIRCUIT">>, category |-> "Judicial"],
       [keyword |-> <<"REFERENDUM">>, category |-> "Referendum"],
       [keyword |-> <<"PROPOSITION">>, category |-> "Referendum"],
       [keyword |-> <<"ADVISORY">>, category |-> "Referendum"],
       [keyword |-> <<"TAX", " ", "RATE">>, category |-> "Referendum"],
       [keyword |-> <<"BOND">>, category |-> "Referendum"] >>

\* detect_category
detect_category(contest_name) ==
    LET upper == Upper(contest_name)
        hits == {k \in 1..Len(CATEGORY_MAP) : Contains(upper, CATEGORY_MAP[k].keyword)}
    IN IF hits = {} THEN "Local"
       ELSE CATEGORY_MAP[CHOOSE k \in hits : \A j \in hits : k <= j].category

\* ^[\d\s%,.]+$
NumbersOnly(s) ==
    /\ s # <<>>
    /\ \A k \in 1..Len(s) : s[k] \in DigitTokens \cup SpaceTokens \cup {"%", ",", "."}

\* is_header_line of parse_pdf_text
is_header_line(s) == StartsWithLiteral(s) \/ PageNumber(s) \/ DigitsOfDigits(s)

\* is_all_caps_name of parse_pdf_text
is_all_caps_name(s) ==
    /\ s = Upper(s)
    /\ CharLen(s) > 4
    /\ ~NumbersOnly(s)
    /\ ~is_header_line(s)

\* the test of lines 369-373: the next line continues a wrapped contest name
ContinuesName(next_line) ==
    /\ next_line = Upper(next_line)
    /\ CharLen(next_line) > 2
    /\ ~\E p \in { <<"NUMBER", " ", "OF", " ", "PRECINCTS">>,
                   <<"PRECINCTS", " ", "REPORTING">>,
                   <<"VOTE", " ", "FOR">> } : StartsWithAt(Upper(next_line), 1, p)
    /\ ~NumbersOnly(next_line)

\* ^literal\s+(\d+) (re.IGNORECASE)
CountMatch(s, literal) ==
    /\ StartsWithAt(Upper(s), 1, literal)
    /\ RunFwd(s, Len(literal) + 1, SpaceTokens) > 0
    /\ RunFwd(s, Len(literal) + 1 + RunFwd(s, Len(literal) + 1, SpaceTokens),
              DigitTokens) > 0

\* int(m.group(1)) of that match
CountOf(s, literal) ==
    LET from == Len(literal) + 1 + RunFwd(s, Len(literal) + 1, SpaceTokens)
    IN ToInt(SubSeq(s, from, from + RunFwd(s, from, DigitTokens) - 1))

NumberOfPrecincts == <<"NUMBER", " ", "OF", " ", "PRECINCTS">>

PrecinctsReporting == <<"PRECINCTS", " ", "REPORTING">>

\* the keys of a contest dict before and after a "Precincts Reporting" line
LaSalleContestKeys ==
    {"contest_name", "contest_category", "party_type", "county",
     "precincts_reporting", "total_precincts", "candidates"}

\* lines 377-387: the dict of a new contest; last_updated is left out
NewContest(full_name) ==
    [keys |-> LaSalleContestKeys,
     contest_name |-> full_name,
     contest_category |-> detect_category(full_name),
     party_type |-> IF detect_party_from_name(full_name) # ""
                    THEN detect_party_from_name(full_name)
                    ELSE "Non-Partisan",
     county |-> "La Salle",
     precincts_reporting |-> 0,
     total_precincts |-> 0,
     reporting_percentage |-> 0,
     candidates |-> <<>>]

\* line + lines[i].strip(): the last word of the line and the first word of
\* the next line become one word
JoinWrapped(s, n) ==
    IF n # <<>> /\ IsWord(s[Len(s)]) /\ IsWord(n[1])
    THEN SubSeq(s, 1, Len(s) - 1) \o <<s[Len(s)] \o n[1]>> \o Tail(n)
    ELSE s \o n

\* re.search(r"\(I$", line)
EndsWithOpenI(s) == Len(s) >= 2 /\ s[Len(s) - 1] = "(" /\ s[Len(s)] = "I"

\* there is no line: i = len(lines)
EndOfText == <<"<end of text>">>

\* lines 418-436: a parsed candidate line inside the current contest
RecordCandidate(contest, candidate) ==
    IF candidate.is_placeholder THEN contest
    ELSE LET party == normalize_party(candidate.party_code, contest.party_type)
         IN [contest EXCEPT
               !.party_type =
                   IF contest.party_type = "Non-Partisan" /\ party # "Non-Partisan"
                   THEN party ELSE @,
               !.candidates =
                   Append(@, [name |-> candidate.name,
                              party |-> IF candidate.party_code # ""
                                        THEN candidate.party_code ELSE "NP",
                              votes |-> candidate.votes,
                              percentage |-> candidate.percentage])]

\* lines 363-364 and 439-440: the current contest is kept when it has
\* candidates
Commit(done, contest) ==
    IF contest # None /\ contest.candidates # <<>> THEN Append(done, contest)
    ELSE done

\* One pass of the while loop of parse_pdf_text over the line lines[i-1],
\* with next_line = lines[i] (EndOfText when i = len(lines)).  The result
\* holds the locals after the pass, whether the pass consumed next_line too,
\* and whether parse_candidate_line raised.
LoopPass(locals, line, next_line) ==
    LET s == Strip(line)
        n == IF next_line = EndOfText THEN <<>> ELSE Strip(next_line)
        more == next_line # EndOfText
        cc == locals.current_contest
        kept == [contests |-> locals.contests,
                 current_contest |-> cc,
                 precincts_total |-> locals.precincts_total,
                 precincts_reporting |-> locals.precincts_reporting,
                 took_next |-> FALSE,
                 raised |-> FALSE]
    IN IF s = <<>> THEN kept
       ELSE IF is_all_caps_name(s)
       THEN LET wrapped == more /\ ContinuesName(n)
            IN [kept EXCEPT
                  !.contests = Commit(locals.contests, cc),
                  !.current_contest =
                      NewContest(IF wrapped THEN s \o <<" ">> \o n ELSE s),
                  !.precincts_total = 0,
                  !.precincts_reporting = 0,
                  !.took_next = wrapped]
       ELSE IF CountMatch(s, NumberOfPrecincts) /\ cc # None
       THEN [kept EXCEPT
               !.precincts_total = CountOf(s, NumberOfPrecincts),
               !.current_contest =
                   [cc EXCEPT !.total_precincts = CountOf(s, NumberOfPrecincts)]]
       ELSE IF CountMatch(s, PrecinctsReporting) /\ cc # None
       THEN LET reporting == CountOf(s, PrecinctsReporting)
            IN [kept EXCEPT
                  !.precincts_reporting = reporting,
                  !.current_contest =
                      [cc EXCEPT
                         !.keys = @ \cup {"reporting_percentage"},
                         !.precincts_reporting = reporting,
                         !.reporting_percentage =
                             IF locals.precincts_total # 0
                             THEN Percent(reporting, locals.precincts_total)
                             ELSE 0]]
       ELSE IF cc # None
       THEN LET wrapped == more /\ EndsWithOpenI(s)
                candidate == parse_candidate_line(
                                 IF wrapped THEN JoinWrapped(s, n) ELSE s)
            IN IF candidate = ValueError
               THEN [kept EXCEPT !.took_next = wrapped, !.raised = TRUE]
               ELSE IF candidate = None
               THEN [kept EXCEPT !.took_next = wrapped]
               ELSE [kept EXCEPT
                       !.took_next = wrapped,
                       !.current_contest = RecordCandidate(cc, candidate)]
       ELSE kept

(***************************************************************************)
(* Kane County scraper: KaneCountyScraper._parse_contest                   *)
(*                                                                         *)
(* A table is the list of its rows; a row is the list of the texts of its  *)
(* td cells.  NoTable stands for a heading that no table follows.          *)
(***************************************************************************)
NoTable == [found |-> FALSE, rows |-> <<>>]

\* KaneCountyScraper.detect_party
KaneDetectParty(contest_name) ==
    LET upper == Upper(contest_name)
        Suffix(words) ==
            \E k \in 1..Len(contest_name) :
                /\ StartsWithAt(contest_name, k, <<" ", "-", " ">>)
                /\ k + 3 <= Len(contest_name)
                /\ contest_name[k + 3] \in words
    IN IF Suffix({"REP", "REPUBLICAN"}) THEN "Republican"
       ELSE IF Suffix({"DEM", "DEMOCRATIC"}) THEN "Democratic"
       ELSE IF Suffix({"NP"}) THEN "Non-Partisan"
       ELSE IF Contains(upper, <<"REPUBLICAN">>) \/ Contains(upper, <<"REP", " ">>)
       THEN "Republican"
       ELSE IF Contains(upper, <<"DEMOCRATIC">>) \/ Contains(upper, <<"DEM", " ">>)
       THEN "Democratic"
       ELSE "Non-Partisan"

\* lines 205-229: the candidate that a row adds, <<>> when it adds none
KaneRow(cells) ==
    IF Len(cells) # 3 \/ Strip(cells[1]) = <<>> THEN <<>>
    ELSE LET votes_text == Strip(cells[2])
             percent_text == SelectSeq(Strip(cells[3]), LAMBDA t : t # "%")
             int_ok == /\ votes_text # <<>>
                       /\ \A k \in 1..Len(votes_text) :
                              votes_text[k] \in DigitTokens \cup {","}
                       /\ ~IntRaises(votes_text)
             float_ok == /\ percent_text # <<>>
                         /\ \A k \in 1..Len(percent_text) :
                                percent_text[k] \in DigitTokens \cup {"."}
                         /\ ~FloatRaises(percent_text)
         IN << [name |-> Strip(cells[1]),
                votes |-> IF int_ok THEN IntOf(votes_text) ELSE 0,
                percent |-> IF float_ok THEN FloatOf(percent_text) ELSE 0] >>

RECURSIVE KaneRows(_)
\* the loop over the rows of the table
KaneRows(rows) ==
    IF rows = <<>> THEN <<>> ELSE KaneRow(Head(rows)) \o KaneRows(Tail(rows))

\* KaneCountyScraper._parse_contest; stats is <<>> when the paragraph has
\* no "N of M Precincts Reporting", else <<N, M>>
KaneParseContest(contest_name, stats, table) ==
    LET contest == [keys |-> {"name", "party", "candidates"},
                    name |-> contest_name,
                    party |-> KaneDetectParty(contest_name),
                    precincts_reporting |-> 0,
                    total_precincts |-> 0,
                    candidates |-> <<>>]
        counted == IF stats = <<>> THEN contest
                   ELSE [contest EXCEPT
                           !.keys = @ \cup {"precincts_reporting", "total_precincts"},
                           !.precincts_reporting = stats[1],
                           !.total_precincts = stats[2]]
    IN IF table = NoTable THEN contest
       ELSE IF KaneRows(table.rows) = <<>> THEN None
       ELSE [counted EXCEPT !.candidates = KaneRows(table.rows)]

(***************************************************************************)
(* Will County scraper: ClarityElectionsScraper.normalize_contest          *)
(*                                                                         *)
(* A contest of summary.json is the record of its arrays: C the name, CH   *)
(* the candidate names, P the parties, V the votes, PCT the percentages    *)
(* (in thousandths of a percent), PR and TP the precinct counts.           *)
(***************************************************************************)
\* ClarityElectionsScraper.detect_contest_party
WillDetectParty(contest) ==
    LET contest_name == Upper(contest.C)
        Has(kws) == \E kw \in kws : Contains(contest_name, kw)
        unique_parties ==
            { IF UpperToken(contest.P[k]) \in {"DEM", "DEMOCRATIC", "D"} THEN "DEM"
              ELSE IF UpperToken(contest.P[k]) \in {"REP", "REPUBLICAN", "R", "GOP"}
              THEN "REP" ELSE UpperToken(contest.P[k]) :
              k \in {j \in 1..Len(contest.P) :
                       /\ contest.P[j] # ""
                       /\ UpperToken(contest.P[j]) \notin
                              {"IND", "INDEPENDENT", "NP", "NONPARTISAN"}} }
    IN IF Has({<<"RETENTION">>}) THEN "Non-Partisan"
       ELSE IF Has({<<"REFERENDUM">>, <<"BALLOT", " ", "QUESTION">>})
       THEN "Non-Partisan"
       ELSE IF Has({<<"DEMOCRATIC">>, <<"(", "DEM", ")">>,
                    <<"DEM", " ", "PRIMARY">>, <<"DEMOCRAT">>})
       THEN "Democratic"
       ELSE IF Has({<<"REPUBLICAN">>, <<"(", "REP", ")">>,
                    <<"REP", " ", "PRIMARY">>, <<"GOP">>})
       THEN "Republican"
       ELSE IF unique_parties = {"DEM"} THEN "Democratic"
       ELSE IF unique_parties = {"REP"} THEN "Republican"
       ELSE "Non-Partisan"

\* ClarityElectionsScraper.normalize_contest; contest_id, county and
\* last_updated are left out
normalize_contest(contest) ==
    [keys |-> LaSalleContestKeys \cup {"reporting_percentage"},
     contest_name |-> contest.C,
     contest_category |-> contest.CAT,
     party_type |-> WillDetectParty(contest),
     county |-> "Will",
     candidates |->
         List([k \in 1..Len(contest.CH) |->
                 [name |-> contest.CH[k],
                  party |-> IF k <= Len(contest.P) THEN contest.P[k] ELSE "",
                  votes |-> IF k <= Len(contest.V) THEN contest.V[k] ELSE 0,
                  percentage |-> IF k <= Len(contest.PCT)
                                 THEN RoundHalfEven(contest.PCT[k], 10) ELSE 0]]),
     precincts_reporting |-> contest.PR,
     total_precincts |-> contest.TP,
     reporting_percentage |->
         IF contest.TP > 0 THEN Percent(contest.PR, contest.TP) ELSE 0]

(***************************************************************************)
(* Chicago Board scraper: ChicagoBoardScraper._parse_contests              *)
(*                                                                         *)
(* lines is the list of the lines of the PDF text, indexed from 1.  The    *)
(* keys _lines_consumed and _party_prefix are written lines_consumed and   *)
(* party_prefix.                                                           *)
(***************************************************************************)
\* line.startswith(word + ' ')
StartsWithWord(s, words) == Len(s) >= 2 /\ s[1] \in words /\ s[2] \in SpaceTokens

\* word + ' ' in text
ContainsWord(s, word) ==
    \E k \in 1..Len(s) : StartsWithWord(SubSeq(s, k, Len(s)), {word})

\* line.startswith('Vote For ')
StartsWithVoteFor(s) ==
    StartsWithAt(s, 1, <<"Vote", " ", "For">>) /\ Len(s) >= 4 /\ s[4] \in SpaceTokens

\* ChicagoBoardScraper.detect_party
ChicagoDetectParty(contest_name, candidate_line) ==
    LET In(words) == Contains(candidate_line, words)
        contest_upper == Upper(contest_name)
    IN IF In(<<"DEM", " ", "-">>) \/ In(<<"DEM", "-">>) THEN "Democratic"
       ELSE IF In(<<"REP", " ", "-">>) \/ In(<<"REP", "-">>) THEN "Republican"
       ELSE IF In(<<"NON", " ", "-">>) \/ In(<<"NON", "-">>) THEN "Non-Partisan"
       ELSE IF In(<<"GRN", " ", "-">>) THEN "Green"
       ELSE IF In(<<"LIB", " ", "-">>) THEN "Libertarian"
       ELSE IF In(<<"IND", " ", "-">>) THEN "Independent"
       ELSE IF ContainsWord(contest_upper, "DEM")
               \/ Contains(contest_upper, <<"DEMOCRATIC">>)
       THEN "Democratic"
       ELSE IF ContainsWord(contest_upper, "REP")
               \/ Contains(contest_upper, <<"REPUBLICAN">>)
       THEN "Republican"
       ELSE "Non-Partisan"

\* ^\d[\d,]*\s+[\d.]+%?\s*$  on a stripped line
ChicagoNumbersLine(s) ==
    LET a == RunFwd(s, 1, DigitTokens \cup {","})
        b == RunFwd(s, a + 1, SpaceTokens)
        c == RunFwd(s, a + b + 1, DigitTokens \cup {"."})
        rest == Len(s) - (a + b + c)
    IN /\ s # <<>> /\ s[1] \in DigitTokens
       /\ b > 0 /\ c > 0
       /\ \/ rest = 0
          \/ rest = 1 /\ s[Len(s)] = "%"

\* the line at index + 1, stripped; <<>> when there is none
NextStripped(lines, index) ==
    IF index + 1 <= Len(lines) THEN Strip(lines[index + 1]) ELSE <<>>

\* ChicagoBoardScraper._is_contest_header
ChicagoIsContestHeader(line, lines, index) ==
    LET next_line == NextStripped(lines, index)
    IN /\ ~StartsWithWord(line, {"DEM", "REP", "NON", "GRN", "LIB", "IND",
                                 "Yes", "No", "Total"})
       /\ ~ChicagoNumbersLine(line)
       /\ index + 1 <= Len(lines)
       /\ \/ /\ Contains(next_line, <<"(">>)
             /\ Contains(next_line, <<"precincts", " ", "reported">>)
          \/ StartsWithVoteFor(next_line)

\* the position after the longest run of tokens of the set from position k
SkipRun(s, k, set) == k + RunFwd(s, k, set)

\* \(\s*(\d+)\s+of\s+(\d+)\s+precincts reported\s*\)  read from left to
\* right, one operator per piece of the pattern: a and a2 delimit the first
\* number, c and c2 the second.  The two numbers of the match, <<>> without
\* a match.
PrecinctClose(s, a, a2, c, c2, e) ==
    IF e <= Len(s) /\ s[e] = ")"
    THEN <<ToInt(SubSeq(s, a, a2 - 1)), ToInt(SubSeq(s, c, c2 - 1))>>
    ELSE <<>>

PrecinctReported(s, a, a2, c, c2, d) ==
    IF d > c2 /\ StartsWithAt(s, d, <<"precincts", " ", "reported">>)
    THEN PrecinctClose(s, a, a2, c, c2, SkipRun(s, d + 3, SpaceTokens))
    ELSE <<>>

PrecinctSecondEnd(s, a, a2, c, c2) ==
    IF c2 > c
    THEN PrecinctReported(s, a, a2, c, c2, SkipRun(s, c2, SpaceTokens))
    ELSE <<>>

PrecinctSecond(s, a, a2, b, c) ==
    IF c > b + 1
    THEN PrecinctSecondEnd(s, a, a2, c, SkipRun(s, c, DigitTokens))
    ELSE <<>>

PrecinctOf(s, a, a2, b) ==
    IF b > a2 /\ b <= Len(s) /\ s[b] = "of"
    THEN PrecinctSecond(s, a, a2, b, SkipRun(s, b + 1, SpaceTokens))
    ELSE <<>>

PrecinctFirstEnd(s, a, a2) ==
    IF a2 > a THEN PrecinctOf(s, a, a2, SkipRun(s, a2, SpaceTokens)) ELSE <<>>

PrecinctFirst(s, a) == PrecinctFirstEnd(s, a, SkipRun(s, a, DigitTokens))

\* the groups of the match of the pattern at position k, <<>> without one
PrecinctGroups(s, k) ==
    IF k <= Len(s) /\ s[k] = "("
    THEN PrecinctFirst(s, SkipRun(s, k + 1, SpaceTokens))
    ELSE <<>>

\* the pattern matches at position k
PrecinctMatchAt(s, k) == PrecinctGroups(s, k) # <<>>

\* the two numbers of the first match of the pattern; <<>> without a match
PrecinctCounts(s) ==
    LET at == {k \in 1..Len(s) : PrecinctMatchAt(s, k)}
    IN IF at = {} THEN <<>>
       ELSE PrecinctGroups(s, CHOOSE x \in at : \A y \in at : x <= y)

\* the line with the optional % of the pattern made explicit
WithPercentSign(s) == IF s # <<>> /\ s[Len(s)] = "%" THEN s ELSE Append(s, "%")

\* ^(?:([A-Z]{3})\s+-\s+)?(.+?)\s+(\d[\d,]*)\s+([\d.]+)%?\s*$
ChicagoCandidateMatch(s) ==
    /\ s # <<>>
    /\ HasVoteTail(WithPercentSign(s))
    /\ BeforeTail(WithPercentSign(s)) >= 1
    /\ votes_str(WithPercentSign(s))[1] \in DigitTokens

\* the number of tokens of the prefix  ([A-Z]{3})\s+-\s+  of the line, 0 when
\* the line has none or nothing of the name would be left after it
PartyPrefixLen(s) ==
    LET a == 1 + RunFwd(s, 2, SpaceTokens)
        b == a + 1 + RunFwd(s, a + 2, SpaceTokens)
    IN IF /\ s # <<>> /\ IsCapsWord(s[1]) /\ TokenLen(s[1]) = 3
          /\ a > 1 /\ a + 1 <= Len(s) /\ s[a + 1] = "-"
          /\ b > a + 1
          /\ b < BeforeTail(WithPercentSign(s))
       THEN b ELSE 0

\* ChicagoBoardScraper._parse_candidate_line: None, a candidate dict, or
\* ValueError when float() raises
ChicagoParseCandidateLine(line) ==
    LET p == WithPercentSign(line)
        k == PartyPrefixLen(line)
    IN IF \/ line = <<>>
          \/ StartsWithAt(line, 1, <<"Printed", ":">>)
          \/ StartsWithAt(line, 1, <<"Data", " ", "Refreshed", ":">>)
          \/ StartsWithWord(line, {"CHI"})
          \/ StartsWithAt(line, 1, <<"CITY", " ", "OF", " ", "CHICAGO">>)
          \/ StartsWithWord(line, {"Page"})
       THEN None
       ELSE IF ~ChicagoCandidateMatch(line) THEN None
       ELSE IF FloatRaises(pct_str(p)) THEN ValueError
       ELSE [name |-> Strip(SubSeq(p, k + 1, BeforeTail(p))),
             votes |-> IntOf(votes_str(p)),
             percent |-> FloatOf(pct_str(p)),
             party_prefix |-> IF k = 0 THEN "" ELSE line[1]]

\* line.startswith('Total ') or line == 'Total'
ChicagoTotalLine(line) ==
    line = <<"Total">> \/ StartsWithWord(line, {"Total"})

RECURSIVE ChicagoCandidateLoop(_, _, _)
\* the while loop of _parse_single_contest from line index i on: the contest
\* after the loop, or ValueError
ChicagoCandidateLoop(lines, index, contest) ==
    IF index > Len(lines) THEN contest
    ELSE LET line == Strip(lines[index])
             candidate == ChicagoParseCandidateLine(line)
             consumed == [contest EXCEPT !.lines_consumed = @ + 1]
         IN IF ChicagoTotalLine(line) THEN consumed
            ELSE IF ChicagoIsContestHeader(line, lines, index) THEN contest
            ELSE IF candidate = ValueError THEN ValueError
            ELSE IF candidate = None
            THEN ChicagoCandidateLoop(lines, index + 1, consumed)
            ELSE ChicagoCandidateLoop(lines, index + 1,
                     [consumed EXCEPT
                        !.candidates = Append(@, candidate),
                        !.party = IF @ = "Unknown"
                                  THEN ChicagoDetectParty(contest.name, line)
                                  ELSE @])

\* ChicagoBoardScraper._parse_single_contest: None, the contest, or
\* ValueError
ChicagoParseSingleContest(lines, start_index) ==
    LET contest_name == Strip(lines[start_index])
        vote_for == StartsWithVoteFor(NextStripped(lines, start_index))
        at == IF vote_for THEN start_index + 2 ELSE start_index + 1
        counts == IF at <= Len(lines) THEN PrecinctCounts(Strip(lines[at])) ELSE <<>>
        begun == [keys |-> {"name", "party", "candidates", "_lines_consumed"}
                           \cup (IF counts = <<>> THEN {}
                                 ELSE {"precincts_reporting", "total_precincts"}),
                  name |-> contest_name,
                  party |-> "Unknown",
                  candidates |-> <<>>,
                  lines_consumed |-> 1 + (IF vote_for THEN 1 ELSE 0)
                                      + (IF counts = <<>> THEN 0 ELSE 1),
                  precincts_reporting |-> IF counts = <<>> THEN 0 ELSE counts[1],
                  total_precincts |-> IF counts = <<>> THEN 0 ELSE counts[2]]
        parsed == ChicagoCandidateLoop(lines,
                      IF counts = <<>> THEN at ELSE at + 1, begun)
    IN IF parsed = ValueError THEN ValueError
       ELSE IF parsed.candidates # <<>> THEN parsed
       ELSE None

RECURSIVE ChicagoParseContests(_, _, _)
\* the while loop of _parse_contests from line index i on: whether it
\* raised, and the list results['contests'] when it did not
ChicagoParseContests(lines, index, done) ==
    IF index > Len(lines) THEN [raised |-> FALSE, contests |-> done]
    ELSE LET line == Strip(lines[index])
             contest == ChicagoParseSingleContest(lines, index)
         IN IF \/ line = <<>>
               \/ Contains(line, <<"Printed", ":">>)
               \/ Contains(line, <<"Data", " ", "Refreshed", ":">>)
               \/ ContainsWord(line, "Page")
            THEN ChicagoParseContests(lines, index + 1, done)
            ELSE IF ~ChicagoIsContestHeader(line, lines, index)
            THEN ChicagoParseContests(lines, index + 1, done)
            ELSE IF contest = ValueError THEN [raised |-> TRUE, contests |-> <<>>]
            ELSE IF contest # None
            THEN ChicagoParseContests(lines, index + contest.lines_consumed,
                                      Append(done, contest))
            ELSE ChicagoParseContests(lines, index + 1, done)

(***************************************************************************)
(* Identity Validator: validate_candidates.py                              *)
(*                                                                         *)
(* A widget file is the list of the names of its PENDING_CANDIDATES block, *)
(* in the order in which parse_pending_candidates collects them.  The JSON *)
(* data is the tree that aggregate() returned.  pending_map is a function  *)
(* from keys to names.                                                     *)
(***************************************************************************)
\* the length of the match of \s*\(i\)\s* (re.IGNORECASE) at the start of s,
\* 0 if none
IncumbentMatch(s) ==
    LET k == LeadingSpaces(s)
    IN IF /\ k + 3 <= Len(s)
          /\ s[k + 1] = "("
          /\ UpperToken(s[k + 2]) = "I"
          /\ s[k + 3] = ")"
       THEN k + 3 + LeadingSpaces(SubSeq(s, k + 4, Len(s)))
       ELSE 0

RECURSIVE RemoveIncumbent(_)
\* re.sub(r'\s*\(i\)\s*', '', s, flags=re.IGNORECASE)
RemoveIncumbent(s) ==
    IF s = <<>> THEN <<>>
    ELSE LET m == IncumbentMatch(s)
         IN IF m > 0 THEN RemoveIncumbent(SubSeq(s, m + 1, Len(s)))
            ELSE <<Head(s)>> \o RemoveIncumbent(Tail(s))

\* the quotation characters of line 68 that the texts of the model use
QuoteTokens == {"\""}

\* re.sub('[...quotation characters...]', '', s)
RemoveQuotes(s) == SelectSeq(s, LAMBDA t : t \notin QuoteTokens)

\* normalize of validate_candidates.py
normalize(name) ==
    Upper(CollapseWhitespace(RemoveQuotes(RemoveIncumbent(name))))

\* name.strip().lower() in ('yes', 'no')
IsYesNo(name) == Upper(Strip(name)) \in { <<"YES">>, <<"NO">> }

RECURSIVE PendingMap(_, _)
\* the loop of lines 105-111 of parse_pending_candidates over the names of
\* the block: name_map[key] = name
PendingMap(names, name_map) ==
    IF names = <<>> THEN name_map
    ELSE LET name == Head(names)
             key == normalize(name)
         IN PendingMap(Tail(names),
                IF IsYesNo(name) \/ key = <<>> THEN name_map
                ELSE [k \in DOMAIN name_map \cup {key} |->
                         IF k = key THEN name ELSE name_map[k]])

\* parse_pending_candidates on the names of a widget's block
parse_pending_candidates(names) == PendingMap(names, <<>>)

RECURSIVE ContestCandidates(_, _, _)
\* lines 141-146 of extract_json_candidates: the tuples of one contest
ContestCandidates(county, contest, candidates) ==
    IF candidates = <<>> THEN <<>>
    ELSE LET cand == Head(candidates)
             cand_name == Strip(GetOr(cand, "name", <<>>))
             contest_name ==
                 IF GetOr(contest, "contest_name", <<>>) # <<>>
                 THEN contest.contest_name
                 ELSE GetOr(contest, "name", <<>>)
         IN (IF cand_name # <<>> /\ ~IsYesNo(cand_name)
             THEN << [county |-> county,
                      contest_name |-> contest_name,
                      party |-> GetOr(contest, "party", "Unknown"),
                      cand_name |-> cand_name] >>
             ELSE <<>>)
            \o ContestCandidates(county, contest, Tail(candidates))

RECURSIVE CountyCandidates(_, _)
\* the tuples of the contests of one county
CountyCandidates(county, contests) ==
    IF contests = <<>> THEN <<>>
    ELSE ContestCandidates(county, Head(contests),
                           GetOr(Head(contests), "candidates", <<>>))
         \o CountyCandidates(county, Tail(contests))

RECURSIVE JsonCandidates(_, _)
\* the loop of extract_json_candidates over county_results.items(); the
\* county files of the model have the shape with the key 'contests'
JsonCandidates(data, counties) ==
    IF counties = <<>> THEN <<>>
    ELSE LET county_data == data.county_results[Head(counties)]
         IN (IF "contests" \in county_data.keys
             THEN CountyCandidates(Head(counties), county_data.contests)
             ELSE <<>>)
            \o JsonCandidates(data, Tail(counties))

\* extract_json_candidates; the trees of aggregate() have no
\* regional_superintendents section
extract_json_candidates(data) ==
    IF "county_results" \in DOMAIN data
    THEN JsonCandidates(data, data.counties_included)
    ELSE <<>>

\* lines 214-218 of validate: the JSON candidates that match no pending entry
Mismatches(json_candidates, pending_map) ==
    SelectSeq(json_candidates,
              LAMBDA c : /\ normalize(c.cand_name) # <<>>
                         /\ normalize(c.cand_name) \notin DOMAIN pending_map)

(***************************************************************************)
(* Inputs: the authorities, the result files their scrapers write and the  *)
(* district mappings of the races file                                     *)
(***************************************************************************)
CountyNames == <<"CountyA", "CountyB", "CountyC", "CountyD", "CountyE", "CountyF">>

NumCounties == 5

AllCounties == SubSeq(CountyNames, 1, NumCounties)

Counties == {AllCounties[i] : i \in 1..NumCounties}

Cand(name, votes) == [keys |-> {"name", "votes"}, name |-> name, votes |-> votes]

JaneTagged == <<"Jane", " ", "Doe", " ", "(", "DEM", ")">>

JaneCaps == <<"JANE", "  ", "DOE">>

JohnRoe == <<"John", " ", "Roe">>

\* the name with the marker of an incumbent
JohnRoeIncumbent == <<"John", " ", "Roe", " ", "(", "i", ")">>

ContestKeys == {"name", "party", "candidates", "precincts_reporting", "total_precincts"}

SenatorDistrict12 ==
    [keys |-> ContestKeys,
     name |-> <<"SENATOR", " ", "DISTRICT", " ", "1", "2">>,
     party |-> "Democratic",
     candidates |-> <<Cand(JaneTagged, 500)>>,
     precincts_reporting |-> 3,
     total_precincts |-> 4]

StateSenate12 ==
    [keys |-> ContestKeys,
     name |-> <<"STATE", " ", "SENATE", " ", "-", " ", "1", "2">>,
     party |-> "Democratic",
     candidates |-> <<Cand(JaneCaps, 300), Cand(JohnRoe, 200)>>,
     precincts_reporting |-> 2,
     total_precincts |-> 2]

PresidentContest ==
    [keys |-> ContestKeys \ {"party"},
     name |-> PresidentLong,
     party |-> "",
     candidates |-> <<Cand(JaneCaps, 2), Cand(JohnRoe, 1)>>,
     precincts_reporting |-> 1,
     total_precincts |-> 4]

PresidentMixed ==
    [keys |-> ContestKeys,
     name |-> <<"President", "  ", "of", " ", "the", " ", "United", " ", "States">>,
     party |-> "Republican",
     candidates |-> <<Cand(JohnRoeIncumbent, 3),
                      [keys |-> {"name"}, name |-> <<"Write", "-", "in">>, votes |-> 0]>>,
     precincts_reporting |-> 4,
     total_precincts |-> 4]

\* a race that no vote has been reported for yet, with the "No Candidate"
\* row of a ballot without candidates
UsRepresentative12 ==
    [keys |-> ContestKeys,
     name |-> <<"U.S.", " ", "REPRESENTATIVE", " ", "DISTRICT", " ", "1", "2">>,
     party |-> "Republican",
     candidates |-> <<Cand(JohnRoe, 0), Cand(NoCandidate, 0)>>,
     precincts_reporting |-> 0,
     total_precincts |-> 2]

\* a contest in the shape that has 'contest_name' and no 'name'
NamelessContest ==
    [keys |-> {"contest_name", "candidates"},
     name |-> <<>>,
     party |-> "",
     candidates |-> <<Cand(JohnRoe, 7)>>,
     precincts_reporting |-> 0,
     total_precincts |-> 0]

ResultFile(contests) ==
    [exists |-> TRUE, keys |-> {"county", "contests"}, contests |-> contests]

\* a file whose scraper set results['error'] after extracting contests
ErrorFile(contests) ==
    [exists |-> TRUE, keys |-> {"county", "contests", "error"}, contests |-> contests]

\* a result file in the name style "SENATOR DISTRICT 12"
SenatorStyleFile == ResultFile(<<SenatorDistrict12, PresidentContest>>)

\* a result file in the name style "STATE SENATE - 12"
StateSenateStyleFile ==
    ResultFile(<<StateSenate12, PresidentContest, PresidentMixed, UsRepresentative12>>)

\* what the scraper of county c can write: every scraper writes the two
\* name styles; CountyA's can fail after extracting contests, and CountyE's
\* file can hold a contest whose 'name' field is missing
FileMenu(c) ==
    {SenatorStyleFile, StateSenateStyleFile}
    \cup (IF c = "CountyA"
          THEN {ErrorFile(<<SenatorDistrict12, PresidentContest>>)} ELSE {})
    \cup (IF c = "CountyE" THEN {ResultFile(<<NamelessContest>>)} ELSE {})

\* the races file is missing: _load_race_mappings returns {}
NoMappings == [keys |-> {}]

MappingKeys == {"congress", "state_senate", "state_house", "judicial"}

MappingMenu ==
    { NoMappings,
      [keys |-> MappingKeys,
       congress |-> <<>>,
       state_senate |-> (12 :> <<"CountyA", "CountyB">>),
       state_house |-> <<>>,
       judicial |-> <<>>],
      [keys |-> MappingKeys,
       congress |-> (12 :> <<"CountyB">>),
       state_senate |-> (1 :> <<"CountyA">>) @@ (12 :> AllCounties),
       state_house |-> (12 :> <<"CountyB", "CountyC">>),
       judicial |-> <<>>] }

\* the orders in which the directory listing may come
GlobOrders ==
    { AllCounties, [i \in 1..NumCounties |-> AllCounties[NumCounties + 1 - i]] }

(***************************************************************************)
(* Inputs of the scrapers                                                  *)
(***************************************************************************)
MaxLines == 4

CountyClerk == <<"COUNTY", " ", "CLERK">>

SheriffDemocratic == <<"SHERIFF", " ", "-", " ", "DEMOCRATIC">>

\* the lines that the text of the La Salle PDF is made of
LineMenu ==
    { CountyClerk,
      SheriffDemocratic,
      <<"Number", " ", "of", " ", "Precincts", "  ", "2">>,
      <<"Precincts", " ", "Reporting", "  ", "1">>,
      <<"Precincts", " ", "Reporting", "  ", "3">>,
      <<"Jane", " ", "Doe", " ", "(", "DEM", ")", " ", "1", ",", "5", "0", "0",
        " ", "6", "0", ".", "0", "%">>,
      <<"John", " ", "Roe", " ", "(", "REP", ")", " ", "3", " ", "4", "0", ".", "0", "%">>,
      <<"Bob", " ", "(", "IND", ")", " ", "2", " ", "0", ".", "0", "%">>,
      <<"John", " ", "Roe", " ", "5", " ", "0", ".", "0", "%">>,
      <<"JANE", " ", "DOE", " ", "(", "DEM", ")", " ", "5", " ", "5", "0", ".", "0", "%">>,
      <<"No", " ", "Candidate">>,
      <<"No", " ", "Candidate", " ", "(", "DEM", ")">>,
      <<"Total", " ", "Votes", " ", "1", ",", "5", "0", "0">>,
      <<"Totals", " ", "(", "DEM", ")", " ", "8", " ", "1", "0", "0", ".", "0", "%">>,
      <<"Totals", " ", "8", " ", "1", "0", "0", ".", "0", "%">>,
      <<"Jane", " ", "Doe", " ", ",", " ", "5", ".", "0", "%">>,
      <<"Jane", " ", "Doe", " ", "(", "I">>,
      <<"ND", ")", " ", "3", " ", "3", "0", ".", "0", "%">>,
      <<"1", "0", "0", ".", "0", "0", "%">>,
      <<"  ">> }

\* the values that the line lines[k] can take when k lines come before it
Following(k) == IF k < MaxLines THEN LineMenu \cup {EndOfText} ELSE {EndOfText}

\* the tables that can follow a heading of the Kane County page
Table(rows) == [found |-> TRUE, rows |-> rows]

KaneTables ==
    { NoTable,
      Table(<< <<>> >>),
      Table(<< <<NoCandidate, <<"0">>, <<"0", ".", "0", "%">>>> >>),
      Table(<< <<>>,
               <<JaneTagged, <<"1", ",", "5", "0", "0">>, <<"6", "0", ".", "0", "%">>>>,
               <<JohnRoe, <<"-">>, <<"-">>>> >>) }

KaneStats == { <<>>, <<1, 2>> }

\* the contests that summary.json of Will County can hold
WillContests ==
    { [C |-> CountyClerk, CAT |-> "County", CH |-> <<>>, P |-> <<>>,
       V |-> <<>>, PCT |-> <<>>, PR |-> 0, TP |-> 2],
      [C |-> CountyClerk, CAT |-> "County", CH |-> <<JaneCaps, JohnRoe>>,
       P |-> <<"DEM", "DEM">>, V |-> <<5, 3>>, PCT |-> <<62500, 37500>>,
       PR |-> 1, TP |-> 2],
      [C |-> SheriffDemocratic, CAT |-> "County", CH |-> <<JohnRoe>>,
       P |-> <<"">>, V |-> <<3>>, PCT |-> <<>>, PR |-> 3, TP |-> 2] }

\* the lines of a contest of the Chicago Board summary
ChicagoPrecinctLine ==
    <<"(", " ", "1", " ", "of", " ", "2", " ", "precincts", " ", "reported", " ", ")">>

ChicagoCandidateLines ==
    { <<"DEM", " ", "-", " ", "Jane", " ", "Doe", "  ", "1", ",", "5", "0", "0",
        "  ", "6", "0", ".", "0", "%">>,
      <<"REP", " ", "-", " ", "John", " ", "Roe", "  ", "3", "  ", "4", "0", ".", "0", "%">>,
      <<"John", " ", "Roe", "  ", "5", "  ", "0", ".", "0">>,
      <<"Bob", "  ", "2", "  ", ".", "%">> }

ChicagoTotalLines == { <<"Total", "  ", "8">> }

\* the texts of a Chicago Board summary with one contest of up to two
\* candidate lines
ChicagoTexts ==
    LET heads == { <<contest_name, ChicagoPrecinctLine>> :
                      contest_name \in {CountyClerk, SheriffDemocratic} }
        bodies == {<<>>} \cup { <<a>> : a \in ChicagoCandidateLines }
                  \cup { <<a, b>> : a \in ChicagoCandidateLines,
                                    b \in ChicagoCandidateLines }
        tails == {<<>>} \cup { <<t>> : t \in ChicagoTotalLines }
    IN { h \o b \o t : h \in heads, b \in bodies, t \in tails }

\* the number of widget files of WIDGET_FILES in the model
NumWidgets == 2

\* a widget file that does not exist
NoWidget == [exists |-> FALSE, names |-> <<>>]

Widget(names) == [exists |-> TRUE, names |-> names]

\* the widget files: missing, without a PENDING_CANDIDATES block, and with
\* the candidates under the spellings of the widgets
WidgetMenu ==
    { NoWidget,
      Widget(<<>>),
      Widget(<< <<"Jane", " ", "Doe">>, JohnRoeIncumbent, <<"Yes">> >>),
      Widget(<< <<"Jane", " ", "\"", "Doe", "\"">>, JohnRoe,
                <<"Write", "-", "in">>, NoCandidate >>) }

(***************************************************************************)
(* The state machine: scrape cycles of run_election_night.py               *)
(***************************************************************************)
\* no aggregate() call has been made in the current cycle
NoResults == [outcome |-> "none"]

\* the validator has not run
NoValidation == [pc |-> "idle"]

\* OUTPUT_FILE does not exist
NoOutput == [state |-> "absent"]

\* the conductor before its first cycle
Asleep ==
    [pc |-> "sleeping", cycle |-> 1, index |-> 0, summary |-> <<>>,
     attempted |-> <<>>, aggregator_runs |-> 0, completed |-> 0,
     results |-> NoResults]

Init ==
    /\ files = [c \in Counties |-> NoFile]
    /\ race_mappings = NoMappings
    /\ results = NoResults
    /\ scraper = "none"
    /\ pc = "idle"
    /\ lines_read = 0
    /\ head = EndOfText
    /\ scraper_contests = <<>>
    /\ current_contest = None
    /\ precincts_total = 0
    /\ precincts_reporting = 0
    /\ validation = NoValidation
    /\ clock = 0
    /\ conductor = Asleep
    /\ output_file = NoOutput
    /\ reader = [seen |-> "nothing"]
    /\ journal = [parses |-> <<>>, passes |-> <<>>]
    /\ winnebago = [pc |-> "idle"]
    /\ normalized = [pc |-> "idle"]

\* a scraper writes (or overwrites) its county's result file
ScraperWrites(c, f) ==
    /\ results.outcome = "none"
    /\ files' = [files EXCEPT ![c] = f]
    /\ UNCHANGED <<race_mappings, results, scraperVars, validatorVars, conductorVars,
                   functionVars>>

\* run_aggregator: a new MultiCountyAggregator loads the race mappings and
\* aggregate() runs over the results directory
RunAggregator ==
    /\ results.outcome = "none"
    /\ \E m \in MappingMenu, glob_order \in GlobOrders :
           /\ race_mappings' = m
           /\ results' = aggregate(files, m, glob_order)
    /\ UNCHANGED <<files, scraperVars, validatorVars, conductorVars,
                   functionVars>>

\* the cycle ends: the aggregator and its return value are dropped
NextCycle ==
    /\ results.outcome # "none"
    /\ results' = NoResults
    /\ race_mappings' = NoMappings
    /\ UNCHANGED <<files, scraperVars, validatorVars, conductorVars,
                   functionVars>>

Next ==
    \/ \E c \in Counties : \E f \in FileMenu(c) : ScraperWrites(c, f)
    \/ RunAggregator
    \/ NextCycle

Spec == Init /\ [][Next]_vars

(***************************************************************************)
(* The state machine of one scraper run                                    *)
(*                                                                         *)
(* scraper names the scraper that runs, pc its position.  For the La Salle *)
(* scraper lines_read is the index i of parse_pdf_text, the number of      *)
(* lines that its loop has read, and head is lines[i], the line that the   *)
(* next pass reads; the lines of the text are chosen as the loop reaches   *)
(* them.  scraper_contests is the list contests of the scraper.            *)
(***************************************************************************)
\* scrape() of la_salle_county_scraper.py calls parse_pdf_text
StartLaSalle ==
    /\ pc = "idle"
    /\ scraper' = "la_salle"
    /\ pc' = "loop"
    /\ lines_read' = 0
    /\ head' \in Following(0)
    /\ scraper_contests' = <<>>
    /\ current_contest' = None
    /\ precincts_total' = 0
    /\ precincts_reporting' = 0
    /\ UNCHANGED <<aggregatorVars, validatorVars, conductorVars,
                   functionVars>>

\* the pass over the line looks at lines[i]: lines 368 and 414
Peeks(line) ==
    is_all_caps_name(Strip(line)) \/ EndsWithOpenI(Strip(line))

\* the locals of parse_pdf_text
Locals ==
    [contests |-> scraper_contests,
     current_contest |-> current_contest,
     precincts_total |-> precincts_total,
     precincts_reporting |-> precincts_reporting]

\* the locals after a pass
AfterPass(pass) ==
    /\ pc' = IF pass.raised THEN "raised" ELSE "loop"
    /\ scraper_contests' = pass.contests
    /\ current_contest' = pass.current_contest
    /\ precincts_total' = pass.precincts_total
    /\ precincts_reporting' = pass.precincts_reporting

\* one pass of the while loop of parse_pdf_text
ParseLine ==
    /\ pc = "loop"
    /\ head # EndOfText
    /\ IF Peeks(head)
       THEN \E next_line \in Following(lines_read + 1) :
              \E pass \in {LoopPass(Locals, head, next_line)} :
                 /\ AfterPass(pass)
                 /\ IF pass.took_next
                    THEN /\ lines_read' = lines_read + 2
                         /\ head' \in Following(lines_read + 2)
                    ELSE /\ lines_read' = lines_read + 1
                         /\ head' = next_line
       ELSE \E pass \in {LoopPass(Locals, head, EndOfText)} :
                 /\ AfterPass(pass)
                 /\ lines_read' = lines_read + 1
                 /\ head' \in Following(lines_read + 1)
    /\ UNCHANGED <<scraper, aggregatorVars, validatorVars, conductorVars,
                   functionVars>>

\* the loop of parse_pdf_text ends: lines 438-442
ReturnContests ==
    /\ pc = "loop"
    /\ head = EndOfText
    /\ scraper_contests' = Commit(scraper_contests, current_contest)
    /\ pc' = "returned"
    /\ UNCHANGED <<scraper, lines_read, head, current_contest, precincts_total,
                   precincts_reporting, aggregatorVars, validatorVars, conductorVars,
                   functionVars>>

\* KaneCountyScraper.scrape_contests over a page with one contest heading
KaneScrape ==
    /\ pc = "idle"
    /\ \E contest_name \in {CountyClerk, SheriffDemocratic},
          stats \in KaneStats, table \in KaneTables :
         LET parsed_contest == KaneParseContest(contest_name, stats, table)
         IN scraper_contests' = IF parsed_contest = None THEN <<>> ELSE <<parsed_contest>>
    /\ scraper' = "kane"
    /\ pc' = "returned"
    /\ UNCHANGED <<lines_read, head, current_contest, precincts_total,
                   precincts_reporting, aggregatorVars, validatorVars, conductorVars,
                   functionVars>>

\* ClarityElectionsScraper.scrape_all_contests over a summary with one
\* contest
WillScrape ==
    /\ pc = "idle"
    /\ \E contest \in WillContests : scraper_contests' = <<normalize_contest(contest)>>
    /\ scraper' = "will"
    /\ pc' = "returned"
    /\ UNCHANGED <<lines_read, head, current_contest, precincts_total,
                   precincts_reporting, aggregatorVars, validatorVars, conductorVars,
                   functionVars>>

\* ChicagoBoardScraper._parse_pdf over the text of one summary: the run ends
\* with the list of contests or with the ValueError of float()
ChicagoScrape ==
    /\ pc = "idle"
    /\ \E lines \in ChicagoTexts :
         \E parsed \in {ChicagoParseContests(lines, 1, <<>>)} :
            /\ pc' = IF parsed.raised THEN "raised" ELSE "returned"
            /\ scraper_contests' = parsed.contests
    /\ scraper' = "chicago"
    /\ UNCHANGED <<lines_read, head, current_contest, precincts_total,
                   precincts_reporting, aggregatorVars, validatorVars, conductorVars,
                   functionVars>>

ScraperNext ==
    \/ StartLaSalle
    \/ ParseLine
    \/ ReturnContests
    \/ KaneScrape
    \/ WillScrape
    \/ ChicagoScrape

ScraperSpec == Init /\ [][ScraperNext]_vars

(***************************************************************************)
(* The state machine of a run of the Identity Validator                    *)
(*                                                                         *)
(* The validator reads the statewide JSON that the aggregator wrote and    *)
(* then goes through the widget files.  validation holds the locals of     *)
(* validate: json_candidates, all_clear, any_widget_found, the number of   *)
(* widget files gone through, and pending_map and mismatches of the last   *)
(* widget.  reported holds, for every widget file found, the names of its  *)
(* block and the unmatched names that validate printed for it.             *)
(***************************************************************************)
\* main loads the JSON and validate extracts the candidates from it
ExtractJson ==
    /\ results.outcome = "returned"
    /\ validation.pc = "idle"
    /\ validation' = [pc |-> "widgets",
                      json_candidates |-> extract_json_candidates(results.tree),
                      all_clear |-> TRUE,
                      any_widget_found |-> FALSE,
                      widgets_done |-> 0,
                      pending_map |-> <<>>,
                      mismatches |-> <<>>,
                      reported |-> <<>>]
    /\ UNCHANGED <<aggregatorVars, scraperVars, conductorVars,
                   functionVars>>

\* one pass of the loop of validate over WIDGET_FILES
ValidateWidget ==
    /\ validation.pc = "widgets"
    /\ validation.widgets_done < NumWidgets
    /\ \E widget \in WidgetMenu :
         LET pending_map == parse_pending_candidates(widget.names)
             mismatches == Mismatches(validation.json_candidates, pending_map)
         IN validation' =
              IF ~widget.exists
              THEN [validation EXCEPT !.widgets_done = @ + 1]
              ELSE IF DOMAIN pending_map = {}
              THEN [validation EXCEPT !.widgets_done = @ + 1,
                                      !.any_widget_found = TRUE,
                                      !.pending_map = pending_map,
                                      !.reported =
                                          Append(@, [names |-> widget.names,
                                                     unmatched |-> <<>>])]
              ELSE [validation EXCEPT !.widgets_done = @ + 1,
                                      !.any_widget_found = TRUE,
                                      !.pending_map = pending_map,
                                      !.mismatches = mismatches,
                                      !.reported =
                                          Append(@, [names |-> widget.names,
                                                     unmatched |-> mismatches]),
                                      !.all_clear = IF mismatches # <<>>
                                                    THEN FALSE ELSE @]
    /\ UNCHANGED <<aggregatorVars, scraperVars, conductorVars,
                   functionVars>>

\* validate returns: False when no widget file was found, else all_clear
ReturnValidation ==
    /\ validation.pc = "widgets"
    /\ validation.widgets_done = NumWidgets
    /\ validation' = [validation EXCEPT
                         !.pc = "returned",
                         !.all_clear = IF validation.any_widget_found
                                       THEN @ ELSE FALSE]
    /\ UNCHANGED <<aggregatorVars, scraperVars, conductorVars,
                   functionVars>>

ValidatorNext ==
    \/ \E c \in Counties : \E f \in FileMenu(c) : ScraperWrites(c, f)
    \/ RunAggregator
    \/ ExtractJson
    \/ ValidateWidget
    \/ ReturnValidation

ValidatorSpec == Init /\ [][ValidatorNext]_vars

(***************************************************************************)
(* The conductor: run_election_night.py                                    *)
(*                                                                         *)
(* clock is the reading of datetime.now(); it advances while the conductor *)
(* sleeps between two cycles.  conductor holds the position and the locals *)
(* of main and run_one_cycle: the counter cycle, the number index of       *)
(* scrapers of SCRAPERS gone through, the dict summary in insertion order, *)
(* and the value results of run_aggregator while OUTPUT_FILE is open.      *)
(* attempted, aggregator_runs and completed record what the cycle has      *)
(* called.  output_file is the content of OUTPUT_FILE on disk, reader what *)
(* the last load_local_json of it returned, and journal the inputs and     *)
(* outputs of the parses and aggregation passes made so far.               *)
(***************************************************************************)
RECURSIVE ParseFrom(_, _, _)
RECURSIVE ParseAfter(_, _, _)
\* the while loop of parse_pdf_text from the line lines[i] on (lines indexed
\* from 1): whether int() or float() raised ValueError, and the list
\* contests at line 442 when none did
ParseFrom(lines, i, locals) ==
    IF i > Len(lines)
    THEN [raised |-> FALSE,
          contests |-> Commit(locals.contests, locals.current_contest)]
    ELSE ParseAfter(lines, i,
             LoopPass(locals, lines[i],
                      IF i + 1 <= Len(lines) THEN lines[i + 1] ELSE EndOfText))

\* the rest of the loop after the pass over lines[i]
ParseAfter(lines, i, pass) ==
    IF pass.raised THEN [raised |-> TRUE, contests |-> <<>>]
    ELSE ParseFrom(lines, IF pass.took_next THEN i + 2 ELSE i + 1,
                   [contests |-> pass.contests,
                    current_contest |-> pass.current_contest,
                    precincts_total |-> pass.precincts_total,
                    precincts_reporting |-> pass.precincts_reporting])

\* line 386: the dict of a new contest holds "last_updated":
\* datetime.now().isoformat()
WithLastUpdated(contests, now) ==
    List([k \in 1..Len(contests) |->
             [keys |-> contests[k].keys \cup {"last_updated"},
              last_updated |-> now] @@ contests[k]])

\* parse_pdf_text on the lines of a text, run when the clock reads now
parse_pdf_text(lines, now) ==
    LET parsed == ParseFrom(lines, 1,
                            [contests |-> <<>>,
                             current_contest |-> None,
                             precincts_total |-> 0,
                             precincts_reporting |-> 0])
    IN [parsed EXCEPT !.contests = WithLastUpdated(@, now)]

\* the buckets of by_party in build_output
PartyBuckets == <<"Democratic", "Republican", "Non-Partisan">>

\* lines 469-471 of build_output
PartyBucket(contest) ==
    IF \E k \in 1..Len(PartyBuckets) : PartyBuckets[k] = contest.party_type
    THEN contest.party_type ELSE "Non-Partisan"

\* the first contest_id of build_output
FirstContestId == 1000

\* lines 473-484 of build_output: the entry of the k-th contest
BucketEntry(contests, k) ==
    [keys |-> {"contest_id", "contest_name", "contest_category", "party_type",
               "county", "candidates", "precincts_reporting", "total_precincts",
               "reporting_percentage", "last_updated"},
     contest_id |-> FirstContestId + k - 1,
     contest_name |-> contests[k].contest_name,
     contest_category |-> contests[k].contest_category,
     party_type |-> PartyBucket(contests[k]),
     county |-> "La Salle",
     candidates |-> contests[k].candidates,
     precincts_reporting |-> contests[k].precincts_reporting,
     total_precincts |-> contests[k].total_precincts,
     reporting_percentage |-> GetOr(contests[k], "reporting_percentage", 0),
     last_updated |-> contests[k].last_updated]

\* build_output of la_salle_county_scraper.py as save_results writes it
build_output(contests, now) ==
    LET entries == List([k \in 1..Len(contests) |-> BucketEntry(contests, k)])
        bucket(party) == SelectSeq(entries, LAMBDA e : e.party_type = party)
    IN [exists |-> TRUE,
        keys |-> {"county", "scraped_at", "source_url", "total_contests", "by_party"},
        scraped_at |-> now,
        total_contests |-> Len(contests),
        by_party |-> [party \in {PartyBuckets[k] : k \in 1..Len(PartyBuckets)} |->
                         [count |-> Len(bucket(party)), contests |-> bucket(party)]]]

\* SCRAPERS of the model: a custom scraper run as a subprocess, then the
\* La Salle scraper
SCRAPERS ==
    << [name |-> "CountyA", type |-> "subprocess"],
       [name |-> "CountyB", type |-> "lasalle"] >>

\* the number of scrape cycles of a session
MaxCycles == 2

StateSenateCaps == <<"STATE", " ", "SENATE", " ", "1", "2">>

JaneDoeLine ==
    <<"Jane", " ", "Doe", " ", "(", "DEM", ")", " ", "1", ",", "5", "0", "0",
      " ", "6", "0", ".", "0", "%">>

\* the texts that the La Salle PDF can hold: a race of a mapped district
\* with its candidate, a county race with precinct counts, and a contest
\* without candidates
LaSalleDocuments ==
    { <<StateSenateCaps, JaneDoeLine>>,
      <<CountyClerk, <<"Number", " ", "of", " ", "Precincts", "  ", "2">>,
        <<"John", " ", "Roe", " ", "5", " ", "0", ".", "0", "%">>, StateSenateCaps>>,
      <<CountyClerk>> }

\* the race mappings that the aggregator of the conductor loads
ConductorMappings == {m \in MappingMenu : "state_senate" \in m.keys}

\* the files that the subprocess scraper writes
SubprocessFiles == {SenatorStyleFile, StateSenateStyleFile}

\* line 509 of main and lines 378-379 of run_one_cycle
StartCycle ==
    /\ conductor.pc = "sleeping"
    /\ conductor.cycle <= MaxCycles
    /\ conductor' = [conductor EXCEPT !.pc = "scrapers", !.index = 0,
                                      !.summary = <<>>, !.attempted = <<>>,
                                      !.aggregator_runs = 0]
    /\ UNCHANGED <<aggregatorVars, scraperVars, validatorVars,
                   functionVars,
                   clock, output_file, reader, journal>>

\* the scraper that the loop of line 381 has reached
CurrentScraper == SCRAPERS[conductor.index + 1]

\* a cycle that stops at the first scraper that fails, without the
\* aggregator
AttemptedStoppingAtError(status) ==
    conductor' = [conductor EXCEPT
                     !.pc = IF status = "error" THEN "returned" ELSE @,
                     !.index = @ + 1,
                     !.completed = IF status = "error" THEN @ + 1 ELSE @,
                     !.attempted = Append(@, CurrentScraper.name),
                     !.summary = Append(@, [name |-> CurrentScraper.name,
                                            status |-> status])]

\* lines 401 and 407: summary[name] is set and the loop goes on
Attempted(status) ==
    conductor' = [conductor EXCEPT
                     !.index = @ + 1,
                     !.attempted = Append(@, CurrentScraper.name),
                     !.summary = Append(@, [name |-> CurrentScraper.name,
                                            status |-> status])]

\* one pass of the loop of run_one_cycle over a scraper of type subprocess:
\* run_subprocess returns True after the script wrote its file, or False
\* (script missing, exit code, timeout, exception)
AttemptSubprocess ==
    /\ conductor.pc = "scrapers"
    /\ conductor.index < Len(SCRAPERS)
    /\ CurrentScraper.type = "subprocess"
    /\ \/ \E f \in SubprocessFiles :
            /\ files' = [files EXCEPT ![CurrentScraper.name] = f]
            /\ Attempted("ok")
       \/ /\ UNCHANGED files
          /\ Attempted("error")
    /\ UNCHANGED <<race_mappings, results, scraperVars, validatorVars,
                   functionVars,
                   clock, output_file, reader, journal>>

\* one pass of the loop over the scraper of type lasalle: run_lasalle
\* returns False without a doc_id, else scrape() parses the text of the
\* PDF and saves build_output; an exception of scrape() gives False
AttemptLaSalle ==
    /\ conductor.pc = "scrapers"
    /\ conductor.index < Len(SCRAPERS)
    /\ CurrentScraper.type = "lasalle"
    /\ \/ \E document \in LaSalleDocuments :
            \E parsed \in {parse_pdf_text(document, clock)} :
               IF parsed.raised
               THEN /\ UNCHANGED <<files, journal>>
                    /\ Attempted("error")
               ELSE /\ files' = [files EXCEPT ![CurrentScraper.name] =
                                      build_output(parsed.contests, clock)]
                    /\ journal' = [journal EXCEPT
                                      !.parses = Append(@, [document |-> document,
                                                            contests |-> parsed.contests])]
                    /\ Attempted("ok")
       \/ /\ UNCHANGED <<files, journal>>
          /\ Attempted("error")
    /\ UNCHANGED <<race_mappings, results, scraperVars, validatorVars,
                   functionVars,
                   clock, output_file, reader>>

\* Ctrl+C while a scraper runs: line 404 re-raises and the session ends
UserInterrupt ==
    /\ conductor.pc = "scrapers"
    /\ conductor.index < Len(SCRAPERS)
    /\ conductor' = [conductor EXCEPT !.pc = "interrupted",
                                      !.attempted = Append(@, CurrentScraper.name)]
    /\ UNCHANGED <<aggregatorVars, scraperVars, validatorVars,
                   functionVars,
                   clock, output_file, reader, journal>>

\* line 412 and lines 343-346 of run_aggregator: aggregate() of a new
\* MultiCountyAggregator, then open(OUTPUT_FILE, "w") truncates the file.
\* An exception of aggregate() is caught at line 365: the cycle returns
\* with summary["_aggregator"] = "error" and the file as it was.
AggregateAndOpen ==
    /\ conductor.pc = "scrapers"
    /\ conductor.index = Len(SCRAPERS)
    /\ \E m \in ConductorMappings, glob_order \in GlobOrders :
         \E aggregated \in {aggregate(files, m, glob_order)} :
            IF aggregated.outcome = "raised"
            THEN /\ conductor' = [conductor EXCEPT
                                     !.pc = "returned",
                                     !.aggregator_runs = @ + 1,
                                     !.completed = @ + 1,
                                     !.summary = Append(@, [name |-> "_aggregator",
                                                            status |-> "error"])]
                 /\ UNCHANGED <<output_file, journal>>
            ELSE /\ conductor' = [conductor EXCEPT
                                     !.pc = "writing",
                                     !.aggregator_runs = @ + 1,
                                     !.results = [aggregated_at |-> clock,
                                                  tree |-> aggregated.tree]]
                 /\ output_file' = [state |-> "empty"]
                 /\ journal' = [journal EXCEPT
                                   !.passes = Append(@, [dir |-> files,
                                                         mappings |-> m,
                                                         glob_order |-> glob_order,
                                                         aggregated_at |-> clock,
                                                         tree |-> aggregated.tree])]
    /\ UNCHANGED <<aggregatorVars, scraperVars, validatorVars,
                   functionVars, clock, reader>>

\* line 347: json.dump writes the text piece by piece into the buffered
\* file; a full buffer is written to disk before the file is closed
FlushOutput ==
    /\ conductor.pc = "writing"
    /\ output_file.state = "empty"
    /\ output_file' = [state |-> "partial"]
    /\ UNCHANGED <<aggregatorVars, scraperVars, validatorVars,
                   functionVars,
                   clock, conductor, reader, journal>>

\* the with block of line 346 ends: the file is closed with the whole text
\* on disk; run_aggregator returns and run_one_cycle sets
\* summary["_aggregator"] and returns (git_push is left out)
CloseOutput ==
    /\ conductor.pc = "writing"
    /\ output_file' = [state |-> "complete", content |-> conductor.results]
    /\ conductor' = [conductor EXCEPT
                        !.pc = "returned",
                        !.results = NoResults,
                        !.completed = @ + 1,
                        !.summary = Append(@, [name |-> "_aggregator",
                                               status |-> "ok"])]
    /\ UNCHANGED <<aggregatorVars, scraperVars, validatorVars,
                   functionVars,
                   clock, reader, journal>>

\* lines 516-527 of main: the conductor sleeps until the next cycle
Sleep ==
    /\ conductor.pc = "returned"
    /\ conductor' = [conductor EXCEPT !.pc = "sleeping", !.cycle = @ + 1]
    /\ clock' = clock + 1
    /\ UNCHANGED <<aggregatorVars, scraperVars, validatorVars,
                   functionVars,
                   output_file, reader, journal>>

\* load_local_json of validate_candidates.py, run by another process: the
\* dict of the file, or None when json.load raises on an empty or
\* unfinished text or the file is not there
ReadOutput ==
    /\ reader' = IF output_file.state = "complete"
                 THEN [seen |-> "complete", content |-> output_file.content]
                 ELSE [seen |-> output_file.state]
    /\ UNCHANGED <<aggregatorVars, scraperVars, validatorVars,
                   functionVars,
                   clock, conductor, output_file, journal>>

ConductorNext ==
    \/ StartCycle
    \/ AttemptSubprocess
    \/ AttemptLaSalle
    \/ UserInterrupt
    \/ AggregateAndOpen
    \/ FlushOutput
    \/ CloseOutput
    \/ Sleep
    \/ ReadOutput

ConductorSpec == Init /\ [][ConductorNext]_vars

(***************************************************************************)
(* The Winnebago scraper: winnebago_county_scraper.py                      *)
(*                                                                         *)
(* Two authorities report for the county.  merged is the dict of           *)
(* _merge_contests as the sequence of its items in insertion order;        *)
(* percentages are tenths of a percent.                                    *)
(***************************************************************************)
\* _normalize_name: re.sub(r"\s+", " ", name.upper().strip())
_normalize_name(name) == CollapseWhitespace(Strip(Upper(name)))

\* _normalize_contest_name of WinnebagoCountyScraper
Winnebago_normalize_contest_name(name) == CollapseWhitespace(Strip(Upper(name)))

\* the place of a key in the items of merged, 0 when it is not a key
KeyIndex(merged, key) ==
    IF \E k \in 1..Len(merged) : merged[k].key = key
    THEN CHOOSE k \in 1..Len(merged) : merged[k].key = key
    ELSE 0

\* merged[key] = contest
SetItem(merged, key, contest) ==
    IF KeyIndex(merged, key) = 0
    THEN Append(merged, [key |-> key, contest |-> contest])
    ELSE [merged EXCEPT ![KeyIndex(merged, key)].contest = contest]

RECURSIVE IndexClerk(_, _)
\* lines 166-168: the clerk contests indexed by normalized name
IndexClerk(merged, clerk_contests) ==
    IF clerk_contests = <<>> THEN merged
    ELSE IndexClerk(SetItem(merged,
                            Winnebago_normalize_contest_name(Head(clerk_contests).contest_name),
                            Head(clerk_contests)),
                    Tail(clerk_contests))

\* existing_cands[norm] of line 175: the last of the first n0 candidates
\* that has the normalized name, 0 when there is none
ExistingCand(candidates, n0, norm) ==
    LET ks == {k \in 1..n0 : _normalize_name(candidates[k].name) = norm}
    IN IF ks = {} THEN 0 ELSE CHOOSE k \in ks : \A j \in ks : j <= k

RECURSIVE AddRockfordCandidates_Overwrites(_, _, _)
\* a merge that takes the votes of Rockford in place of the sum
AddRockfordCandidates_Overwrites(candidates, n0, rc_candidates) ==
    IF rc_candidates = <<>> THEN candidates
    ELSE LET rc_cand == Head(rc_candidates)
             k == ExistingCand(candidates, n0, _normalize_name(rc_cand.name))
         IN AddRockfordCandidates_Overwrites(
                IF k > 0 THEN [candidates EXCEPT ![k].votes = rc_cand.votes]
                ELSE Append(candidates, rc_cand),
                n0, Tail(rc_candidates))

RECURSIVE AddRockfordCandidates(_, _, _)
\* lines 177-183: the votes of a candidate of both authorities are added,
\* a candidate of Rockford only is appended
AddRockfordCandidates(candidates, n0, rc_candidates) ==
    IF rc_candidates = <<>> THEN candidates
    ELSE LET rc_cand == Head(rc_candidates)
             k == ExistingCand(candidates, n0, _normalize_name(rc_cand.name))
         IN AddRockfordCandidates(
                IF k > 0 THEN [candidates EXCEPT ![k].votes = @ + rc_cand.votes]
                ELSE Append(candidates, rc_cand),
                n0, Tail(rc_candidates))

\* lines 172-194: a Rockford contest merged into the contest of its key
MergeInto(existing, rc) ==
    [existing EXCEPT
        !.candidates = AddRockfordCandidates(@, Len(@), rc.candidates),
        !.precincts_reporting = @ + rc.precincts_reporting,
        !.total_precincts = @ + rc.total_precincts,
        !._source = "Winnebago County Clerk + Rockford Board"]

RECURSIVE AddRockford(_, _)
\* lines 170-197: the loop over the Rockford contests
AddRockford(merged, rockford_contests) ==
    IF rockford_contests = <<>> THEN merged
    ELSE LET rc == Head(rockford_contests)
             key == Winnebago_normalize_contest_name(rc.contest_name)
             k == KeyIndex(merged, key)
         IN AddRockford(IF k > 0
                        THEN [merged EXCEPT ![k].contest = MergeInto(@, rc)]
                        ELSE SetItem(merged, key, rc),
                        Tail(rockford_contests))

\* lines 200-204: the percentages of a contest after the merge
Recalculated(contest) ==
    LET total_votes == SumVotes(contest.candidates)
    IN IF total_votes > 0
       THEN [contest EXCEPT !.candidates =
                [k \in 1..Len(@) |->
                    [contest.candidates[k] EXCEPT !.percentage =
                        RoundHalfEven(contest.candidates[k].votes * 1000,
                                      total_votes)]]]
       ELSE contest

\* _merge_contests of WinnebagoCountyScraper: list(merged.values())
Winnebago_merge_contests(clerk_contests, rockford_contests) ==
    LET merged == AddRockford(IndexClerk(<<>>, clerk_contests), rockford_contests)
    IN [k \in 1..Len(merged) |-> Recalculated(merged[k].contest)]

\* a contest as _parse_contest returns it
ParsedContest(name, candidates, reporting, total, source) ==
    [contest_name |-> name, name |-> name,
     party |-> "Non-Partisan", party_type |-> "Non-Partisan",
     candidates |-> candidates,
     precincts_reporting |-> reporting,
     total_precincts |-> total,
     _source |-> source]

\* a candidate as _parse_contest returns it
ParsedCandidate(name, votes, percentage) ==
    [name |-> name, votes |-> votes, percentage |-> percentage,
     party |-> "Non-Partisan"]

RegionalSuperintendent == <<"Regional", " ", "Superintendent">>

\* the contests that the County Clerk can report
ClerkContests ==
    { ParsedContest(RegionalSuperintendent,
                    << ParsedCandidate(<<"Jane", " ", "Doe">>, 10, 667),
                       ParsedCandidate(<<"John", " ", "Roe">>, 5, 333) >>,
                    2, 3, "County Clerk"),
      ParsedContest(<<"REGIONAL", "  ", "SUPERINTENDENT">>,
                    << ParsedCandidate(<<"John", " ", "Roe">>, 1, 1000) >>,
                    1, 3, "County Clerk"),
      ParsedContest(<<"County", " ", "Clerk">>,
                    << ParsedCandidate(<<"Jane", " ", "Doe">>, 3, 1000) >>,
                    3, 3, "County Clerk") }

\* the contests that the Rockford Board can report
RockfordContests ==
    { ParsedContest(<<"REGIONAL", " ", "SUPERINTENDENT">>,
                    << ParsedCandidate(<<"JANE", "  ", "DOE">>, 7, 875),
                       ParsedCandidate(<<"Write", "-", "in">>, 1, 125) >>,
                    4, 4, "Rockford Board"),
      ParsedContest(<<"Mayor">>,
                    << ParsedCandidate(<<"John", " ", "Roe">>, 4, 1000) >>,
                    1, 4, "Rockford Board"),
      ParsedContest(RegionalSuperintendent,
                    << ParsedCandidate(<<"John", " ", "Roe">>, 2, 1000),
                       ParsedCandidate(<<"Write", "-", "in">>, 0, 0) >>,
                    0, 4, "Rockford Board") }

\* the number of contests of one authority
MaxContests == 2

\* the lists of at most MaxContests contests of a menu
ContestLists(menu) ==
    UNION { [1..n -> menu] : n \in 0..MaxContests }

\* lines 243-246 of scrape: both authorities are fetched
FetchAuthorities ==
    /\ winnebago.pc = "idle"
    /\ \E clerk_contests \in ContestLists(ClerkContests),
          rockford_contests \in ContestLists(RockfordContests) :
         winnebago' = [pc |-> "fetched",
                       clerk_contests |-> clerk_contests,
                       rockford_contests |-> rockford_contests]
    /\ UNCHANGED <<aggregatorVars, scraperVars, validatorVars, conductorVars,
                   normalized>>

\* line 249 of scrape: all_contests = self._merge_contests(...)
MergeAuthorities ==
    /\ winnebago.pc = "fetched"
    /\ winnebago' = [pc |-> "merged",
                     clerk_contests |-> winnebago.clerk_contests,
                     rockford_contests |-> winnebago.rockford_contests,
                     all_contests |->
                         Winnebago_merge_contests(winnebago.clerk_contests,
                                                  winnebago.rockford_contests)]
    /\ UNCHANGED <<aggregatorVars, scraperVars, validatorVars, conductorVars,
                   normalized>>

WinnebagoNext ==
    \/ FetchAuthorities
    \/ MergeAuthorities

WinnebagoSpec == Init /\ [][WinnebagoNext]_vars

(***************************************************************************)
(* The identity normalizers applied to a name and to the key they gave     *)
(***************************************************************************)
\* candidate names as the authorities and the widgets spell them
CandidateSpellings ==
    { <<"Jane", " ", "Doe">>, <<"JANE", "  ", "DOE">>, <<"John", " ", "Roe">>,
      <<"Jane", " ", "\"", "Doe", "\"">>, <<"Write", "-", "in">> }

\* what follows a candidate name: nothing, an incumbency marker in either
\* case, a party annotation, and a marker with a quotation character in it
NameSuffixes ==
    { <<>>, <<" ", "(", "i", ")">>, <<" ", "(", "I", ")">>,
      <<" ", "(", "DEM", ")">>, <<" ", "(", "\"", "i", ")">> }

\* contest names, the last with a prefix that a replacement leaves behind
ContestSpellings ==
    { PresidentLong,
      <<"President", "  ", "of", " ", "the", " ", "United", " ", "States">>,
      <<"U.S.", " ", "SENATOR">>,
      <<"U.S.", " ", "REPRESENTATIVE", " ", "DISTRICT", " ", "1", "2">>,
      <<"STATE", " ", "SENATE", " ", "1", "2">>,
      <<"COUNTY", " ", "CLERK">>,
      <<"U.S.", " ", "U.S.", " ", "SENATOR">> }

\* the names that the normalizers are applied to
NormalizerNames ==
    { base \o suffix : base \in CandidateSpellings, suffix \in NameSuffixes }
    \cup ContestSpellings

Normalizers == {"_normalize_contest_name", "_normalize_candidate_name", "normalize"}

\* the normalizer of the name applied to s
ApplyNormalizer(function, s) ==
    CASE function = "_normalize_contest_name" -> _normalize_contest_name(s)
      [] function = "_normalize_candidate_name" -> _normalize_candidate_name(s)
      [] function = "normalize" -> normalize(s)

\* a normalizer applied to a name
NormalizeOnce(function) ==
    /\ normalized.pc = "idle"
    /\ \E name \in NormalizerNames :
         normalized' = [pc |-> "once", function |-> function, name |-> name,
                        key |-> ApplyNormalizer(function, name)]
    /\ UNCHANGED <<aggregatorVars, scraperVars, validatorVars, conductorVars,
                   winnebago>>

\* the same normalizer applied to the key
NormalizeAgain ==
    /\ normalized.pc = "once"
    /\ normalized' = [pc |-> "twice", function |-> normalized.function,
                      name |-> normalized.name, key |-> normalized.key,
                      again |-> ApplyNormalizer(normalized.function, normalized.key)]
    /\ UNCHANGED <<aggregatorVars, scraperVars, validatorVars, conductorVars,
                   winnebago>>

NormalizerNext ==
    \/ NormalizeOnce("_normalize_contest_name")
    \/ NormalizeOnce("_normalize_candidate_name")
    \/ NormalizeOnce("normalize")
    \/ NormalizeAgain

NormalizerSpec == Init /\ [][NormalizerNext]_vars

(***************************************************************************)
(* Properties of the tree that aggregate() returned in the current cycle   *)
(***************************************************************************)
Tree == results.tree

\* aggregate() returned a tree with aggregate sections
HasTree == results.outcome = "returned" /\ "error" \notin DOMAIN Tree

\* the county results the tree was built from, kept verbatim in the tree
TreeCountyResults ==
    [order |-> Tree.counties_included, data |-> Tree.county_results]

Offices == {"congress", "state_senate", "state_house"}

PatternsOf(office) ==
    CASE office = "congress" -> CongressPatterns
      [] office = "state_senate" -> StateSenatePatterns
      [] office = "state_house" -> StateHousePatterns

\* the source contests of the inferred statewide race with key k, in order
StatewideSources(k) ==
    SelectSeq(AllAppearances(TreeCountyResults, TreeCountyResults.order),
              LAMBDA a : _normalize_contest_name(a.contest.name) = k)

\* the source contests of the race of district d of an office, in order
DistrictSources(office, d) ==
    DistrictAppearances(TreeCountyResults, race_mappings[office][d],
                        PatternsOf(office), d)

\* every merged contest of the tree with the list of its source contests
MergeRecords ==
    {[sources |-> StatewideSources(k), merged |-> Tree.statewide_races[k]] :
        k \in DOMAIN Tree.statewide_races}
    \cup UNION {{[sources |-> DistrictSources(o, d),
                  merged |-> Tree.multi_county_races[o][d]] :
                    d \in DOMAIN Tree.multi_county_races[o]} : o \in Offices}

\* the candidate rows of a list of source contests, as <<source, row>>
CandidateRows(sources) ==
    UNION {{<<i, j>> : j \in 1..Len(GetOr(sources[i].contest, "candidates", <<>>))} :
              i \in 1..Len(sources)}

RowKey(sources, r) ==
    _normalize_candidate_name(sources[r[1]].contest.candidates[r[2]].name)

RowVotes(sources, r) ==
    GetOr(sources[r[1]].contest.candidates[r[2]], "votes", 0)

RECURSIVE SumRows(_, _)
SumRows(sources, rows) ==
    IF rows = {} THEN 0
    ELSE LET r == CHOOSE x \in rows : TRUE
         IN RowVotes(sources, r) + SumRows(sources, rows \ {r})

\* the merged candidates that stand for identity k
EntriesOf(merged, k) ==
    {n \in 1..Len(merged.candidates) :
        _normalize_candidate_name(merged.candidates[n].name) = k}

VotesConserved(rec) ==
    LET rows == CandidateRows(rec.sources)
        m == rec.merged
    IN /\ \A r \in rows :
              Cardinality(EntriesOf(m, RowKey(rec.sources, r))) = 1
       /\ \A n \in 1..Len(m.candidates) :
              m.candidates[n].votes =
                  SumRows(rec.sources,
                          {r \in rows : RowKey(rec.sources, r) =
                              _normalize_candidate_name(m.candidates[n].name)})
       /\ m.total_votes = SumRows(rec.sources, rows)

\* C1: merge vote conservation.  In every merged contest of the tree, each
\* candidate identity (normalized candidate name) of a source has exactly
\* one merged candidate, whose votes are the sum of that identity's votes
\* over all the sources, and the total is the sum of all source votes: no
\* vote is dropped or counted twice.
C1_MergeVoteConservation ==
    HasTree => \A rec \in MergeRecords : VotesConserved(rec)

\* C1 witness: a merged contest of two sources that both hold one identity
\* under different raw names, and one identity only the second source has
C1_Witness ==
    /\ HasTree
    /\ \E rec \in MergeRecords :
           /\ Len(rec.sources) = 2
           /\ \E r1, r2 \in CandidateRows(rec.sources) :
                  /\ r1[1] = 1 /\ r2[1] = 2
                  /\ RowKey(rec.sources, r1) = RowKey(rec.sources, r2)
                  /\ rec.sources[1].contest.candidates[r1[2]].name
                         # rec.sources[2].contest.candidates[r2[2]].name
           /\ \E r2 \in CandidateRows(rec.sources) :
                  /\ r2[1] = 2
                  /\ \A r1 \in CandidateRows(rec.sources) :
                         r1[1] = 1 => RowKey(rec.sources, r1) # RowKey(rec.sources, r2)

\* the totals of a merged contest: per identity its votes and percentage
\* (-1 when the record carries none), and the total votes
Totals(m) ==
    [total_votes |-> m.total_votes,
     candidates |->
         {[key |-> _normalize_candidate_name(m.candidates[n].name),
           votes |-> m.candidates[n].votes,
           percent |-> IF "percent" \in DOMAIN m.candidates[n]
                       THEN m.candidates[n].percent ELSE -1] :
              n \in 1..Len(m.candidates)}]

Reverse(s) == List([i \in 1..Len(s) |-> s[Len(s) + 1 - i]])

\* C2: merge is commutative.  For any two source contests S1, S2 of a
\* merged contest of the tree, merging [S1, S2] and merging [S2, S1] give
\* the same per-candidate votes, percentages and total votes; and the
\* merged contest itself has the totals of its sources merged in the
\* opposite order.
C2_MergeCommutative ==
    HasTree =>
        \A rec \in MergeRecords :
            /\ Totals(rec.merged) = Totals(_merge_contests(Reverse(rec.sources)))
            /\ \A i, j \in 1..Len(rec.sources) :
                   Totals(_merge_contests(<<rec.sources[i], rec.sources[j]>>))
                       = Totals(_merge_contests(<<rec.sources[j], rec.sources[i]>>))

\* C2 witness: a merged contest of two different sources with a shared
\* candidate, where the order shows in the record (its name) but not in
\* the totals
C2_Witness ==
    /\ HasTree
    /\ \E rec \in MergeRecords :
           /\ Len(rec.sources) = 2
           /\ rec.sources[1].contest # rec.sources[2].contest
           /\ rec.merged.name # _merge_contests(Reverse(rec.sources)).name
           /\ \E e \in Totals(rec.merged).candidates :
                  /\ e.votes > RowVotes(rec.sources, <<1, 1>>)
                  /\ e.votes > RowVotes(rec.sources, <<2, 1>>)

\* the file of county c carries a top-level error
Errored(c) == files[c].exists /\ "error" \in files[c].keys

\* the results directory without the files that carry an error
WithoutErrored == [c \in Counties |-> IF Errored(c) THEN NoFile ELSE files[c]]

\* C3: authority exclusion.  What aggregate() produces is what it produces
\* when the errored files are absent; the tree's num_counties counts the
\* files without error only, and an errored authority is in no list of the
\* tree and in no merged contest.
C3_AuthorityExclusion ==
    results.outcome # "none" =>
        /\ \E glob_order \in GlobOrders :
               results = aggregate(WithoutErrored, race_mappings, glob_order)
        /\ HasTree =>
               /\ Tree.num_counties
                      = Cardinality({c \in Counties : files[c].exists /\ ~Errored(c)})
               /\ \A c \in Counties :
                      Errored(c) =>
                          /\ \A i \in 1..Len(Tree.counties_included) :
                                 Tree.counties_included[i] # c
                          /\ c \notin DOMAIN Tree.county_results
                          /\ \A rec \in MergeRecords :
                                 /\ \A i \in 1..Len(rec.merged.counties) :
                                        rec.merged.counties[i] # c
                                 /\ \A n \in 1..Len(rec.merged.candidates) :
                                        \A i \in 1..Len(rec.merged.candidates[n].counties) :
                                            rec.merged.candidates[n].counties[i] # c

\* C3 witness: a tree with merged contests, built while one authority's
\* file carries an error
C3_Witness ==
    /\ HasTree
    /\ MergeRecords # {}
    /\ Cardinality({c \in Counties : Errored(c)}) = 1

\* no authority has a usable result file
ZeroUsable == \A c \in Counties : ~files[c].exists \/ Errored(c)

Sections == {"statewide_races", "multi_county_races", "county_results"}

C5_NeverRaises == results.outcome # "raised"

\* every contest of the loaded county results, as an appearance
LoadedAppearances ==
    AllAppearances(TreeCountyResults, TreeCountyResults.order)

InSeq(x, seq) == \E i \in 1..Len(seq) : seq[i] = x

\* C6: a contest consumed by a district mapping is in no inferred
\* statewide race of the same tree
C6_NoDuplicateRepresentation ==
    HasTree =>
        \A o \in Offices :
            \A d \in DOMAIN Tree.multi_county_races[o] :
                \A k \in DOMAIN Tree.statewide_races :
                    \A i \in 1..Len(DistrictSources(o, d)) :
                        ~InSeq(DistrictSources(o, d)[i], StatewideSources(k))

\* the authorities that report a contest with normalized name k
AuthoritiesReporting(k) ==
    {LoadedAppearances[i].county :
        i \in {j \in 1..Len(LoadedAppearances) :
                  _normalize_contest_name(LoadedAppearances[j].contest.name) = k}}

\* C7: a normalized contest name is an inferred statewide race if and only
\* if at least a quorum of authorities report a contest with that name
C7_QuorumOfAuthorities ==
    HasTree =>
        \A i \in 1..Len(LoadedAppearances) :
            LET k == _normalize_contest_name(LoadedAppearances[i].contest.name)
            IN k \in DOMAIN Tree.statewide_races
                   <=> Cardinality(AuthoritiesReporting(k)) >= Quorum

\* the keys of the tree and of a merged contest that lines 161-172 and
\* 340-376 write
TreeKeys ==
    {"num_counties", "counties_included", "statewide_races",
     "multi_county_races", "county_results"}

MergedKeys ==
    {"name", "party", "counties", "num_counties", "candidates", "total_votes"}

\* the mapped districts of an office whose patterns the contest name matches
MatchingDistricts(o, name) ==
    {d \in DOMAIN GetOr(race_mappings, o, <<>>) :
        MatchesAny(PatternsOf(o), d, name)}

\* C8: a contest whose name matches the patterns of more than one district
\* of an office is not merged into a district without a flag: the tree or
\* the district's record carries a field that flags it
C8_AmbiguousMatchFlagged ==
    HasTree =>
        \A o \in Offices :
            \A d \in DOMAIN Tree.multi_county_races[o] :
                \A i \in 1..Len(DistrictSources(o, d)) :
                    Cardinality(MatchingDistricts(
                        o, DistrictSources(o, d)[i].contest.name)) > 1
                    => \/ DOMAIN Tree # TreeKeys
                       \/ DOMAIN Tree.multi_county_races[o][d] # MergedKeys

\* the contests that the race of district d of office o is to be built
\* from, as <<county, index in the county's contests>>
ExpectedRows(o, d) ==
    {r \in UNION {{<<c, i>> : i \in 1..Len(GetOr(Tree.county_results[c], "contests", <<>>))} :
                     c \in DOMAIN Tree.county_results} :
        /\ InSeq(r[1], race_mappings[o][d])
        /\ MatchesAny(PatternsOf(o), d, Tree.county_results[r[1]].contests[r[2]].name)}

RECURSIVE SumContestVotes(_)
SumContestVotes(rows) ==
    IF rows = {} THEN 0
    ELSE LET r == CHOOSE x \in rows : TRUE
             cands == GetOr(Tree.county_results[r[1]].contests[r[2]], "candidates", <<>>)
         IN SumVotes([i \in 1..Len(cands) |-> [votes |-> GetOr(cands[i], "votes", 0)]])
            + SumContestVotes(rows \ {r})

\* the example of the specification: district 12 of the state senate is
\* mapped to CountyA and CountyB, CountyA reports SENATOR DISTRICT 12 with
\* 500 votes for Jane Doe, CountyB reports STATE SENATE - 12 with 300 for
\* her and 200 for John Roe
SenateExample ==
    /\ "state_senate" \in race_mappings.keys
    /\ 12 \in DOMAIN race_mappings.state_senate
    /\ race_mappings.state_senate[12] = <<"CountyA", "CountyB">>
    /\ files["CountyA"] = SenatorStyleFile
    /\ files["CountyB"] = StateSenateStyleFile

RECURSIVE SumField(_, _)
\* the sum of a precinct count over the source contests
SumField(sources, field) ==
    IF sources = <<>> THEN 0
    ELSE GetOr(Head(sources).contest, field, 0) + SumField(Tail(sources), field)

\* C10: a merged contest carries precincts_reporting and total_precincts,
\* each the sum of the count over its source contests
C10_PrecinctsSummed ==
    HasTree =>
        \A rec \in MergeRecords :
            /\ {"precincts_reporting", "total_precincts"} \subseteq DOMAIN rec.merged
            /\ rec.merged.precincts_reporting
                   = SumField(rec.sources, "precincts_reporting")
            /\ rec.merged.total_precincts
                   = SumField(rec.sources, "total_precincts")

(***************************************************************************)
(* Properties of the contests that a scraper run has assembled             *)
(***************************************************************************)
\* a "no candidate" row: the placeholder grammar of parse_candidate_line
IsPlaceholderName(name) == NoCandidateMatch(Strip(name))

\* the contests that the running scraper has assembled so far: the
\* committed ones and the current one
Assembled ==
    {scraper_contests[k] : k \in 1..Len(scraper_contests)}
    \cup (IF current_contest = None THEN {} ELSE {current_contest})

\* the source rows of a merge that are not placeholders
RealRows(sources) ==
    {r \in CandidateRows(sources) :
        ~IsPlaceholderName(sources[r[1]].contest.candidates[r[2]].name)}

\* C11: a placeholder ("no candidate") row contributes neither votes nor a
\* candidate entry: no assembled contest and no merged contest has a
\* placeholder among its candidates, and a merged contest's total is the
\* sum of the votes of the non-placeholder rows of its sources
C11_PlaceholderExcluded ==
    /\ \A contest \in Assembled :
           scraper = "la_salle" =>
               \A k \in 1..Len(contest.candidates) :
                   ~IsPlaceholderName(contest.candidates[k].name)
    /\ HasTree =>
           \A rec \in MergeRecords :
               /\ \A n \in 1..Len(rec.merged.candidates) :
                      ~IsPlaceholderName(rec.merged.candidates[n].name)
               /\ rec.merged.total_votes = SumRows(rec.sources, RealRows(rec.sources))

\* the candidates of a contest that are not placeholders
RealCandidates(contest) ==
    {k \in 1..Len(contest.candidates) :
        ~IsPlaceholderName(contest.candidates[k].name)}

\* C12: every contest of the result set that a scraper run returns has at
\* least one candidate that is not a placeholder; a heading with no
\* parseable candidate gives no contest
C12_RetainedContestsHaveCandidates ==
    pc = "returned" =>
        \A k \in 1..Len(scraper_contests) :
            RealCandidates(scraper_contests[k]) # {}

\* the same statement for the runs of the La Salle parser alone
C12_LaSalleRetainsOnlyFilledContests ==
    scraper = "la_salle" =>
        \A k \in 1..Len(scraper_contests) :
            RealCandidates(scraper_contests[k]) # {}

RECURSIVE SumPercentages(_)
\* sum(c["percentage"] for c in candidates), in hundredths of a percent
SumPercentages(candidates) ==
    IF candidates = <<>> THEN 0
    ELSE Head(candidates).percentage + SumPercentages(Tail(candidates))

\* every candidate of the contest has a stored percentage of zero
StoredPercentagesZero(contest) ==
    \A k \in 1..Len(contest.candidates) : contest.candidates[k].percentage = 0

\* C13: a contest that the La Salle parser returns with votes, and whose
\* candidates all came with a percentage of zero, has percentages that sum
\* to 100.0 within 0.1 (the parser keeps the percentage of the line, so the
\* stored percentage and the assembled one are the same field)
C13_PercentagesReconstructed ==
    (scraper = "la_salle" /\ pc = "returned") =>
        \A k \in 1..Len(scraper_contests) :
            LET contest == scraper_contests[k]
                off == SumPercentages(contest.candidates) - 10000
            IN (StoredPercentagesZero(contest) /\ SumVotes(contest.candidates) > 0)
                   => (-10 < off /\ off < 10)

\* C14: in every contest that a scraper run has assembled, when the number
\* of precincts is known (a total above the initial 0), the precincts
\* reporting lie between 0 and the total
C14_PrecinctsWithinTotal ==
    \A contest \in Assembled :
        contest.total_precincts > 0 =>
            /\ 0 <= contest.precincts_reporting
            /\ contest.precincts_reporting <= contest.total_precincts

\* C15: the candidate line parser returns no match for every line that
\* starts with the word "total" in any letter case, whichever grammar the
\* line fits, so no assembled contest has a candidate with such a name
C15_TotalLinesRejected ==
    /\ (head # EndOfText /\ StartsWithTotal(Strip(head)))
           => parse_candidate_line(head) = None
    /\ scraper = "la_salle" =>
           \A contest \in Assembled :
               \A k \in 1..Len(contest.candidates) :
                   ~StartsWithTotal(contest.candidates[k].name)

\* the line "Total Votes 1,500" of the claim is not accepted
C15_TotalVotesLineRejected ==
    parse_candidate_line(<<"Total", " ", "Votes", " ", "1", ",", "5", "0", "0">>) = None

\* C16: the candidate line parser answers every line with a candidate or
\* with no match and never raises, so no run of the contest assembler ends
\* with an exception of the parser
C16_ParserNeverRaises ==
    /\ head # EndOfText => parse_candidate_line(head) # ValueError
    /\ pc # "raised"

\* C17: a line that ends with a vote count and a percentage is never taken
\* for a contest heading: the assembler does not classify it as one, and no
\* assembled contest is named by such a line
C17_VoteLinesAreNotHeaders ==
    /\ (pc = "loop" /\ head # EndOfText /\ HasVoteTail(Strip(head)))
           => ~is_all_caps_name(Strip(head))
    /\ scraper = "la_salle" =>
           \A contest \in Assembled : ~HasVoteTail(contest.contest_name)

\* some candidate of the contest carries a tag of the contest's party
PartyFromCandidate(contest) ==
    /\ contest.party_type # "Non-Partisan"
    /\ \E k \in 1..Len(contest.candidates) :
           PARTY_MAP(contest.candidates[k].party) = contest.party_type

\* the pass over the line at the head adds a candidate without a tag of its
\* own to the current contest
AddsUntagged ==
    /\ pc = "loop" /\ pc' = "loop"
    /\ current_contest # None /\ current_contest' # None
    /\ ~Peeks(head)
    /\ parse_candidate_line(head) \notin {None, ValueError}
    /\ parse_candidate_line(head).party_code = ""
    /\ Len(current_contest'.candidates) = Len(current_contest.candidates) + 1

\* C18: once a candidate has given the contest a party other than the
\* default, a later candidate of the contest without a tag of its own is
\* recorded with the party of the contest
C18_UntaggedInheritContestParty ==
    [][(AddsUntagged /\ PartyFromCandidate(current_contest))
          => LET added == current_contest'.candidates[Len(current_contest'.candidates)]
             IN PARTY_MAP(added.party) = current_contest'.party_type]_vars

\* the positions of the candidates of a La Salle contest whose tag names a
\* party other than the default
TaggedLaSalle(contest) ==
    {k \in 1..Len(contest.candidates) :
        PARTY_MAP(contest.candidates[k].party) # "Non-Partisan"}

\* the party of a La Salle contest by the first informative signal: the
\* keyword of the heading, else the first candidate with a party tag, else
\* the default
FirstSignalLaSalle(contest) ==
    LET keyword == detect_party_from_name(contest.contest_name)
        tagged == TaggedLaSalle(contest)
    IN IF keyword # "" THEN keyword
       ELSE IF tagged # {}
       THEN PARTY_MAP(contest.candidates[CHOOSE k \in tagged :
                                            \A n \in tagged : k <= n].party)
       ELSE "Non-Partisan"

\* the positions of the candidates of a Chicago contest that carry a party
\* prefix
TaggedChicago(contest) ==
    {k \in 1..Len(contest.candidates) : contest.candidates[k].party_prefix # ""}

\* the same for a contest of the Chicago Board scraper
FirstSignalChicago(contest) ==
    LET keyword == ChicagoDetectParty(contest.name, <<>>)
        tagged == TaggedChicago(contest)
    IN IF keyword # "Non-Partisan" THEN keyword
       ELSE IF tagged # {}
       THEN ChicagoDetectParty(<<>>,
                <<contest.candidates[CHOOSE k \in tagged :
                                        \A n \in tagged : k <= n].party_prefix,
                  " ", "-">>)
       ELSE "Non-Partisan"

\* the La Salle half of C19: at every point of the run the party of every
\* assembled contest is the one of the first informative signal among the
\* heading and the candidates recorded so far
C19_LaSallePartyFromFirstSignal ==
    scraper = "la_salle" =>
        \A contest \in Assembled : contest.party_type = FirstSignalLaSalle(contest)

\* C19: the party of a contest is resolved once, from the first informative
\* signal: the keyword of the heading, else the first tagged candidate, else
\* the default.  The keyword of a heading is never overridden by a candidate
\* tag and the party that one tagged candidate gave is never changed by a
\* later candidate.
C19_PartyResolvedOnce ==
    /\ C19_LaSallePartyFromFirstSignal
    /\ (scraper = "chicago" /\ pc = "returned") =>
           \A k \in 1..Len(scraper_contests) :
               scraper_contests[k].party = FirstSignalChicago(scraper_contests[k])

\* the name without a parenthetical party annotation at its end
WithoutTrailingParty(name) ==
    LET t == Strip(name)
        n == Len(t)
    IN IF /\ n >= 3 /\ t[n] = ")" /\ t[n - 2] = "("
          /\ IsCapsWord(t[n - 1]) /\ t[n - 1] # "I"
       THEN SubSeq(t, 1, n - 3) ELSE t

\* the identity of a candidate name: the name without a party annotation at
\* its end, without incumbency markers and quotation characters, with its
\* whitespace collapsed, in upper case
IdentityKey(name) ==
    Upper(CollapseWhitespace(RemoveQuotes(RemoveIncumbent(WithoutTrailingParty(name)))))

\* the validator has compared the JSON candidates with a widget's names
Compared ==
    validation.pc \in {"widgets", "returned"} /\ DOMAIN validation.pending_map # {}

\* the Merge Engine half of C20: no merged contest has two candidate entries
\* of one identity
C20_MergeEngineOneEntryPerIdentity ==
    HasTree =>
        \A rec \in MergeRecords :
            \A n, m \in 1..Len(rec.merged.candidates) :
                IdentityKey(rec.merged.candidates[n].name)
                    = IdentityKey(rec.merged.candidates[m].name) => n = m

\* the Identity Validator half of C20: a JSON candidate that has the
\* identity of a pending candidate is not reported as unmatched
C20_ValidatorMatchesByIdentity ==
    Compared =>
        \A n \in 1..Len(validation.mismatches) :
            \A key \in DOMAIN validation.pending_map :
                IdentityKey(validation.pending_map[key])
                    # IdentityKey(validation.mismatches[n].cand_name)

\* C20: candidate names that differ only in a party annotation at the end,
\* an incumbency marker "(i)", nickname quotation characters, whitespace or
\* letter case have one identity key, in the Merge Engine (one merged
\* candidate) and in the Identity Validator (no mismatch) alike
C20_OneIdentityKey ==
    C20_MergeEngineOneEntryPerIdentity /\ C20_ValidatorMatchesByIdentity

(***************************************************************************)
(* Properties of the cycles of the conductor                               *)
(***************************************************************************)
\* the parses of the journal, two by two in the order they were made
ParsePairs ==
    {p \in (1..Len(journal.parses)) \X (1..Len(journal.parses)) : p[1] < p[2]}

\* the aggregation passes of the journal, two by two
PassPairs ==
    {p \in (1..Len(journal.passes)) \X (1..Len(journal.passes)) : p[1] < p[2]}

\* the contest records without the field last_updated
WithoutLastUpdated(contests) ==
    List([k \in 1..Len(contests) |->
             [f \in DOMAIN contests[k] \ {"last_updated"} |->
                 IF f = "keys" THEN contests[k].keys \ {"last_updated"}
                 ELSE contests[k][f]]])

\* two parses of the same text of the La Salle PDF give the same contest
\* records, field by field
C21_ReparseIdentical ==
    \A p \in ParsePairs :
        journal.parses[p[1]].document = journal.parses[p[2]].document
        => journal.parses[p[1]].contests = journal.parses[p[2]].contests

\* two parses of the same text give the same contest records but for the
\* field last_updated
C21_ReparseIdenticalButLastUpdated ==
    \A p \in ParsePairs :
        journal.parses[p[1]].document = journal.parses[p[2]].document
        => WithoutLastUpdated(journal.parses[p[1]].contests)
           = WithoutLastUpdated(journal.parses[p[2]].contests)

\* two aggregation passes over the same result files, with the same race
\* mappings and directory listing, give the same tree
C21_ReaggregationIdentical ==
    \A p \in PassPairs :
        /\ journal.passes[p[1]].dir = journal.passes[p[2]].dir
        /\ journal.passes[p[1]].mappings = journal.passes[p[2]].mappings
        /\ journal.passes[p[1]].glob_order = journal.passes[p[2]].glob_order
        => journal.passes[p[1]].tree = journal.passes[p[2]].tree

\* C21: repeated runs are idempotent: parsing the same document again gives
\* identical contest records, and aggregating the same result files again
\* gives an identical merged tree
C21_RepeatedRunsIdempotent ==
    C21_ReparseIdentical /\ C21_ReaggregationIdentical

\* the trees that the aggregation passes of the session have built
BuiltContents ==
    {[aggregated_at |-> journal.passes[k].aggregated_at,
      tree |-> journal.passes[k].tree] : k \in 1..Len(journal.passes)}

\* what a reader has got is, when it got a tree at all, a whole tree of one
\* of the passes
C22_ReaderGetsBuiltTree ==
    reader.seen = "complete" => reader.content \in BuiltContents

\* load_local_json returns while the second or a later aggregation pass of
\* the session has been started: a tree had been published before
ReadsAfterPublication ==
    reader' # reader /\ Len(journal.passes) >= 2

\* C22: the published tree is replaced atomically: once a tree has been
\* published, a reader gets a complete tree, the previous one or the new
\* one, and never an empty or unfinished file
C22_ReaderSeesCompleteTree ==
    [][ReadsAfterPublication => reader'.seen = "complete"]_vars

(***************************************************************************)
(* Properties of the reports of the Identity Validator                     *)
(***************************************************************************)
\* the candidate names of the contests of county_results of a tree
TreeCandidateNames(data) ==
    IF "county_results" \notin DOMAIN data THEN {}
    ELSE UNION { UNION { { Strip(county_data.contests[k].candidates[n].name) :
                             n \in 1..Len(county_data.contests[k].candidates) } :
                         k \in 1..Len(county_data.contests) } :
                 county_data \in { data.county_results[c] :
                                     c \in DOMAIN data.county_results } }

\* the normalized keys of the names of a roster
RosterKeys(names) == { normalize(names[n]) : n \in 1..Len(names) }

\* the names of the tree that have no equal normalized key in a roster
Unmatched(data, names) ==
    { name \in TreeCandidateNames(data) : normalize(name) \notin RosterKeys(names) }

\* the names that validate reported for a widget
ReportedNames(report) ==
    { report.unmatched[n].cand_name : n \in 1..Len(report.unmatched) }

\* validate has gone through at least one widget file
Validating == validation.pc \in {"widgets", "returned"}

\* for every widget whose block has names, the names reported are the
\* names of the tree with no equal normalized key among them
C23_ReportsUnmatchedOfFilledRosters ==
    Validating =>
        \A w \in 1..Len(validation.reported) :
            validation.reported[w].names # <<>> =>
                ReportedNames(validation.reported[w])
                    = Unmatched(results.tree, validation.reported[w].names)

\* a run of the validator changes neither the result files nor the tree
C23_ValidatorReadOnly ==
    [][validation' # validation => files' = files /\ results' = results]_vars

\* C23: for every widget file the validator reports exactly the candidate
\* names of the tree that have no equal normalized key in the roster of that
\* widget
C23_ReportsEveryUnmatchedName ==
    Validating =>
        \A w \in 1..Len(validation.reported) :
            ReportedNames(validation.reported[w])
                = Unmatched(results.tree, validation.reported[w].names)

(***************************************************************************)
(* Properties of the order of a cycle of the conductor                     *)
(***************************************************************************)
\* the names of the first n scrapers of SCRAPERS, in the order of the list
ScraperNames(n) == [k \in 1..n |-> SCRAPERS[k].name]

\* some scraper of the cycle has failed
SomeScraperFailed ==
    \E k \in 1..Len(conductor.summary) :
        /\ conductor.summary[k].name # "_aggregator"
        /\ conductor.summary[k].status = "error"

\* C24: in a cycle that no user interrupt ends, the scrapers are attempted
\* once each in the order of SCRAPERS whichever of them fail, and the
\* aggregator runs once, after all of them
C24_EachScraperOnceThenAggregator ==
    /\ conductor.pc = "scrapers" =>
          /\ conductor.attempted = ScraperNames(conductor.index)
          /\ conductor.aggregator_runs = 0
    /\ conductor.pc \in {"writing", "returned"} =>
          /\ conductor.attempted = ScraperNames(Len(SCRAPERS))
          /\ conductor.aggregator_runs = 1
          /\ Len(conductor.summary) >= Len(SCRAPERS)
          /\ \A k \in 1..Len(SCRAPERS) :
                conductor.summary[k].name = SCRAPERS[k].name

\* a cycle in which every scraper failed has returned after its aggregator
\* wrote the tree
C24_Witness ==
    /\ conductor.pc = "returned"
    /\ \A k \in 1..Len(SCRAPERS) : conductor.summary[k].status = "error"
    /\ conductor.summary[Len(SCRAPERS) + 1] =
          [name |-> "_aggregator", status |-> "ok"]
    /\ conductor.aggregator_runs = 1

(***************************************************************************)
(* Properties of the merge of the two authorities of Winnebago County      *)
(***************************************************************************)
\* the key under which _merge_contests files a contest
ContestKey(contest) == Winnebago_normalize_contest_name(contest.contest_name)

\* the contests of a list, as a set
Reported(contests) == { contests[k] : k \in 1..Len(contests) }

\* the normalized candidate names of a contest
CandidateKeys(contest) ==
    { _normalize_name(contest.candidates[n].name) :
        n \in 1..Len(contest.candidates) }

\* the votes of the candidates of a normalized name in one contest
VotesIn(contest, norm) ==
    SumVotes(SelectSeq(contest.candidates,
                       LAMBDA cand : _normalize_name(cand.name) = norm))

RECURSIVE VotesAcross(_, _, _)
\* the votes of a candidate in the contests of a key of a list
VotesAcross(contests, key, norm) ==
    IF contests = <<>> THEN 0
    ELSE (IF ContestKey(Head(contests)) = key
          THEN VotesIn(Head(contests), norm) ELSE 0)
         + VotesAcross(Tail(contests), key, norm)

\* a reported contest is represented by a merged contest of its key that
\* has all its candidates
Represented(contest, all_contests) ==
    \E m \in Reported(all_contests) :
        /\ ContestKey(m) = ContestKey(contest)
        /\ CandidateKeys(contest) \subseteq CandidateKeys(m)

\* a contest is in the output with its name, candidates, votes and
\* precinct counts as reported
AsIs(contest, all_contests) ==
    \E m \in Reported(all_contests) :
        /\ m.contest_name = contest.contest_name
        /\ Len(m.candidates) = Len(contest.candidates)
        /\ \A n \in 1..Len(m.candidates) :
              /\ m.candidates[n].name = contest.candidates[n].name
              /\ m.candidates[n].votes = contest.candidates[n].votes
        /\ m.precincts_reporting = contest.precincts_reporting
        /\ m.total_precincts = contest.total_precincts
        /\ m._source = contest._source

\* what C25 states of the output of _merge_contests on two lists
DualAuthorityMerged(clerk_contests, rockford_contests, all_contests) ==
    LET clerk_keys == { ContestKey(c) : c \in Reported(clerk_contests) }
        rockford_keys == { ContestKey(c) : c \in Reported(rockford_contests) }
    IN /\ \A c \in Reported(clerk_contests) \cup Reported(rockford_contests) :
             Represented(c, all_contests)
       /\ \A rc \in Reported(rockford_contests) :
             ContestKey(rc) \notin clerk_keys => AsIs(rc, all_contests)
       /\ \A key \in clerk_keys \cap rockford_keys :
             \A m \in Reported(all_contests) :
                ContestKey(m) = key =>
                   \A norm \in CandidateKeys(m) :
                      VotesIn(m, norm)
                         = VotesAcross(clerk_contests, key, norm)
                           + VotesAcross(rockford_contests, key, norm)

\* no two contests of the list have one normalized name
DistinctKeys(contests) ==
    \A j, k \in 1..Len(contests) :
        ContestKey(contests[j]) = ContestKey(contests[k]) => j = k

DistrictEntries ==
    UNION {{<<o, d>> : d \in DOMAIN Tree.multi_county_races[o]} : o \in Offices}

\* the entries of multi_county_races that a source contest is merged into
EntriesWith(appearance) ==
    {e \in DistrictEntries : InSeq(appearance, DistrictSources(e[1], e[2]))}

\* C26: a source contest is merged into at most one entry of
\* multi_county_races, over all offices and districts
C26_OneDistrictEntryPerContest ==
    HasTree =>
        \A i \in 1..Len(LoadedAppearances) :
            Cardinality(EntriesWith(LoadedAppearances[i])) <= 1

\* the party of a source contest as _merge_contests reads it
SourceParty(appearance) == GetOr(appearance.contest, "party", "Non-Partisan")

\* the counties list of the merged contest names no authority twice
NoDuplicateAuthority(rec) ==
    \A i, j \in 1..Len(rec.merged.counties) :
        rec.merged.counties[i] = rec.merged.counties[j] => i = j

\* num_counties is the number of distinct authorities of the sources
CountsDistinctAuthorities(rec) ==
    rec.merged.num_counties =
        Cardinality({rec.sources[i].county : i \in 1..Len(rec.sources)})

\* all the sources of the merged contest are contests of one party
OneParty(rec) ==
    \A i, j \in 1..Len(rec.sources) :
        SourceParty(rec.sources[i]) = SourceParty(rec.sources[j])

\* C27: a merged contest combines at most one contest of an authority and
\* only contests of one party: its counties list has no duplicate,
\* num_counties is the number of distinct authorities, and the primaries of
\* two parties are never summed into one record
C27_OneContestPerAuthoritySameParty ==
    HasTree =>
        \A rec \in MergeRecords :
            /\ NoDuplicateAuthority(rec)
            /\ CountsDistinctAuthorities(rec)
            /\ OneParty(rec)

(***************************************************************************)
(* Properties of what the aggregator of a cycle reads of the result files  *)
(***************************************************************************)
RECURSIVE BucketContests(_, _)
\* the contests of the buckets of by_party, bucket after bucket
BucketContests(by_party, parties) ==
    IF parties = <<>> THEN <<>>
    ELSE (IF Head(parties) \in DOMAIN by_party
          THEN by_party[Head(parties)].contests ELSE <<>>)
         \o BucketContests(by_party, Tail(parties))

\* the contests of a result file, in the shape with the list contests and
\* in the shape with the buckets by_party
FileContests(data) ==
    GetOr(data, "contests", <<>>)
    \o (IF "by_party" \in data.keys
        THEN BucketContests(data.by_party, PartyBuckets) ELSE <<>>)

\* the name of a contest, under the key name or the key contest_name
NameOfContest(contest) ==
    IF "name" \in contest.keys THEN contest.name ELSE contest.contest_name

\* the mapped districts <<office, district>> that list the county and whose
\* patterns the name matches
DistrictsFor(mappings, county, name) ==
    UNION {{<<o, d>> : d \in {x \in DOMAIN GetOr(mappings, o, <<>>) :
                                 /\ InSeq(county, mappings[o][x])
                                 /\ MatchesAny(PatternsOf(o), x, name)}} :
              o \in Offices}

\* in the tree of a pass every contest of the files of the counted
\* authorities is among the contests that the aggregator read, and is in
\* the race of every mapped district that it matches
AllContestsTakePart(pass) ==
    "counties_included" \in DOMAIN pass.tree =>
        \A k \in 1..Len(pass.tree.counties_included) :
            LET county == pass.tree.counties_included[k]
                data == pass.tree.county_results[county]
                contests == FileContests(data)
            IN \A n \in 1..Len(contests) :
                  /\ InSeq([county |-> county, contest |-> contests[n]],
                           CountyAppearances(county, data))
                  /\ \A e \in DistrictsFor(pass.mappings, county,
                                           NameOfContest(contests[n])) :
                        /\ e[2] \in DOMAIN pass.tree.multi_county_races[e[1]]
                        /\ InSeq(county,
                                 pass.tree.multi_county_races[e[1]][e[2]].counties)

\* C28: every contest of a loaded result file without error takes part in
\* the inference of statewide races and in the matching of districts, in
\* the shape with the list contests as in the shapes with party buckets;
\* no authority counted in num_counties has contests that are ignored
C28_EveryShapeTakesPart ==
    \A p \in 1..Len(journal.passes) : AllContestsTakePart(journal.passes[p])

(***************************************************************************)
(* Properties of the identity normalizers                                  *)
(***************************************************************************)
\* the normalizer has been applied to a name and to its key, and gave the
\* key again
SameKeyAgain(function) ==
    (normalized.pc = "twice" /\ normalized.function = function) =>
        normalized.again = normalized.key

\* _normalize_contest_name of the aggregator on its own key
C29_ContestNameIdempotent == SameKeyAgain("_normalize_contest_name")

\* _normalize_candidate_name of the aggregator on its own key
C29_CandidateNameIdempotent == SameKeyAgain("_normalize_candidate_name")

\* normalize of the validator on its own key
C29_ValidatorNormalizeIdempotent == SameKeyAgain("normalize")

\* C29: the identity normalizers are idempotent: the contest name
\* normalizer and the candidate name normalizer of the aggregator and the
\* normalizer of the validator give, on a key they produced, that key
C29_NormalizersIdempotent ==
    \A function \in Normalizers : SameKeyAgain(function)

(***************************************************************************)
(* Properties of the value that validate returns                           *)
(***************************************************************************)
\* validate has returned
Returned == validation.pc = "returned"

\* every name of the tree has an equal key in the roster of every widget
\* file that was found
EveryNameInEveryRoster ==
    \A w \in 1..Len(validation.reported) :
        Unmatched(results.tree, validation.reported[w].names) = {}

\* validate returns True only if every name is matched in every widget
\* file whose block has names
C30_TrueOnlyIfFilledRostersMatch ==
    (Returned /\ validation.all_clear) =>
        /\ validation.any_widget_found
        /\ \A w \in 1..Len(validation.reported) :
              validation.reported[w].names # <<>> =>
                 Unmatched(results.tree, validation.reported[w].names) = {}

\* validate returns False when a name is unmatched in a widget file whose
\* block has names, and when no widget file was found
C30_FalseOnMismatchOrNoWidget ==
    (/\ Returned
     /\ \/ validation.reported = <<>>
        \/ \E w \in 1..Len(validation.reported) :
              /\ validation.reported[w].names # <<>>
              /\ Unmatched(results.tree, validation.reported[w].names) # {})
    => ~validation.all_clear

\* C30: validate returns True only if, for every widget file present, one
\* with an empty roster included, every candidate of the JSON has an equal
\* key in the roster of that widget; it returns False when there is a
\* mismatch and when no widget file was found
C30_AllClearOnlyIfAllMatched ==
    Returned =>
        /\ validation.all_clear =>
              (validation.reported # <<>> /\ EveryNameInEveryRoster)
        /\ (validation.reported = <<>> \/ ~EveryNameInEveryRoster) =>
              ~validation.all_clear

====
